---- MODULE Spec2Model ----
(***************************************************************************)
(* flask-forge: the idempotent source patcher of `forge generate resource` *)
(* (src/src/forge/commands/generate_cmd.py) and of `forge plugin openapi`  *)
(* (src/src/forge/commands/plugin_cmd.py).                                 *)
(*                                                                         *)
(* A Python str is a TLA+ string, read as the sequence of its characters   *)
(* (Len, SubSeq and \o apply to it).  Offsets are 0-based and half-open as *)
(* in Python: Slice(t, a, b) is t[a:b] and Char(t, i) is t[i].             *)
(***************************************************************************)
EXTENDS Integers, Sequences, FiniteSets, TLC

VARIABLES
    \* one call of insert_once, and the same call repeated (SpecInsertOnce)
    text,               \* insert_once: the `text` argument (the Document)
    needle,             \* insert_once: the payload
    anchor,             \* insert_once: the literal marker
    before,             \* insert_once: the placement flag
    fallback_pattern,   \* insert_once: the optional regex
    result,             \* the str the last call of insert_once returned
    step,               \* which of the four steps of insert_once returned
    pc,                 \* "start", "once" (one call made), "twice"
    \* a generated project on disk and the forge commands run in it (Spec)
    main_py,            \* whether src/<pkg>/main.py exists (package detection)
    api_py,             \* content of src/<pkg>/interfaces/http/api.py
    di_wiring_py,       \* content of src/<pkg>/shared/di_wiring.py
    pyproject_toml,     \* content of pyproject.toml
    openapi_py,         \* content of interfaces/http/ext/openapi.py, or None
    files,              \* the module files `generate resource` writes
    history,            \* the command lines of the forge runs so far
    branches,           \* the branch each api.py patch of the last run took
    returned,           \* what the patch functions of the last run returned
    exit_code,          \* the exit status of the last forge run
    \* one call of bump_version, and a second call on its result (SpecBump)
    current_version,    \* bump_version: the version string passed in
    version_type,       \* bump_version: the bump kind passed in
    bumped,             \* what the last call of bump_version did
    bump_pc,            \* "start", "once" (one call made), "twice"
    \* one run of scripts/forge_release.py in the forge repository (SpecRelease)
    argv,               \* the command line after the script name
    rel_pc,             \* the statement the script is at
    rel_stack,          \* where the callers of the running function resume
    current,            \* local current_version of prepare/create_release
    new_version,        \* local new_version of prepare_release
    pending,            \* the exception in flight through a finally block
    rel_log,            \* the commands run, files written, questions asked
    rel_exit,           \* the exit status of the script, -1 while it runs
    forge_pyproject,    \* content of the repository's pyproject.toml
    forge_init,         \* content of src/forge/__init__.py
    temp_verify,        \* whether temp_verify.py exists
    branch,             \* the git branch checked out
    dirty,              \* the paths `git status --porcelain` lists
    tags,               \* the git tags that exist
    commits,            \* the messages of the commits made
    pushed,             \* the refs pushed to origin
    \* one call of _render_template_dir (SpecRender)
    walk,               \* what os.walk has still to yield: directories, files
    outputs,            \* the files under out_dir: <<path, bytes>>
    out_dirs            \* the directories under out_dir

insert_vars == <<text, needle, anchor, before, fallback_pattern, result, step, pc>>

project_vars ==
    <<main_py, api_py, di_wiring_py, pyproject_toml, openapi_py, files,
      history, branches, returned, exit_code>>

bump_vars == <<current_version, version_type, bumped, bump_pc>>

release_vars ==
    <<argv, rel_pc, rel_stack, current, new_version, pending, rel_log, rel_exit,
      forge_pyproject, forge_init, temp_verify, branch, dirty, tags, commits,
      pushed>>

render_vars == <<walk, outputs, out_dirs>>

vars == <<insert_vars, project_vars, bump_vars, release_vars, render_vars>>

----------------------------------------------------------------------------
(* Bounds of the model.                                                    *)

MaxLines == 3

MaxRuns == 2

\* the largest version number bump_version is called with
MaxVersion == 10
MaxChunks == 2

----------------------------------------------------------------------------
(* Python str operations.                                                  *)

NL == "\n"

\* The characters str.rstrip() and str.strip() strip and the regex class \s
\* matches.
WHITESPACE == {" ", "\n", "\t", "\r"}

\* An optional str (`str | None`): None, or Some(s).
None == <<>>

Some(s) == <<s>>

Min(S) == CHOOSE x \in S : \A y \in S : x <= y

Max(S) == CHOOSE x \in S : \A y \in S : x >= y

\* The one element of a set.  In The({f(x) : x \in {e}}) the value of e is
\* computed once and bound to x, as an assignment to a local variable does.
The(S) == CHOOSE x \in S : TRUE

\* t[a:b]
Slice(t, a, b) == SubSeq(t, a + 1, b)

\* t[i]
Char(t, i) == SubSeq(t, i + 1, i + 1)

\* t.startswith(s, i)
StartsAt(t, i, s) == i + Len(s) <= Len(t) /\ Slice(t, i, i + Len(s)) = s

\* t.find(s, from): the lowest offset >= from where s occurs, or -1
str_find(t, s, from) ==
    LET hits == {i \in from..(Len(t) - Len(s)) : StartsAt(t, i, s)}
    IN  IF hits = {} THEN -1 ELSE Min(hits)

\* t.rfind(s): the highest offset where s occurs, or -1
str_rfind(t, s) ==
    LET hits == {i \in 0..(Len(t) - Len(s)) : StartsAt(t, i, s)}
    IN  IF hits = {} THEN -1 ELSE Max(hits)

\* s in t
str_in(s, t) == \E i \in 0..(Len(t) - Len(s)) : StartsAt(t, i, s)

RECURSIVE replace_from(_, _, _, _)
replace_from(t, old, new, from) ==
    LET i == str_find(t, old, from)
    IN  IF i = -1
        THEN Slice(t, from, Len(t))
        ELSE Slice(t, from, i) \o new \o replace_from(t, old, new, i + Len(old))

\* t.replace(old, new): every non-overlapping occurrence, left to right
\* (old is never empty here)
str_replace(t, old, new) == replace_from(t, old, new, 0)

\* t.rstrip()
str_rstrip(t) ==
    Slice(t, 0, Min({n \in 0..Len(t) :
                        \A k \in n..(Len(t) - 1) : Char(t, k) \in WHITESPACE}))

\* t.strip()
str_strip(t) ==
    LET r == str_rstrip(t)
    IN  Slice(r, Min({n \in 0..Len(r) :
                        n = Len(r) \/ Char(r, n) \notin WHITESPACE}), Len(r))

\* t.endswith(s)
str_endswith(t, s) == Len(s) <= Len(t) /\ Slice(t, Len(t) - Len(s), Len(t)) = s

RECURSIVE str_join(_, _)
\* sep.join(parts)
str_join(sep, parts) ==
    IF parts = <<>> THEN ""
    ELSE IF Len(parts) = 1 THEN parts[1]
    ELSE parts[1] \o sep \o str_join(sep, Tail(parts))

RECURSIVE split_from(_, _, _)
split_from(t, sep, from) ==
    LET i == str_find(t, sep, from)
    IN  IF i = -1
        THEN <<Slice(t, from, Len(t))>>
        ELSE <<Slice(t, from, i)>> \o split_from(t, sep, i + Len(sep))

\* t.split(sep)
str_split(t, sep) == split_from(t, sep, 0)

----------------------------------------------------------------------------
(* re.search(fallback_pattern, text, re.DOTALL).  A match is its span       *)
(* <<start, end>>; NoMatch stands for the None that re.search returns.     *)

NoMatch == <<-1, -1>>

\* a search that returns the last occurrence instead of the first
search_literal_last(pattern, t) ==
    LET i == str_rfind(t, pattern)
    IN  IF i = -1 THEN NoMatch ELSE <<i, i + Len(pattern)>>

\* A pattern without metacharacters matches its own text, first occurrence.
search_literal(pattern, t) ==
    LET i == str_find(t, pattern, 0)
    IN  IF i = -1 THEN NoMatch ELSE <<i, i + Len(pattern)>>

RECURSIVE ws_end(_, _)
\* \s* taken greedily from offset i: the offset where the whitespace ends
ws_end(t, i) ==
    IF i < Len(t) /\ Char(t, i) \in WHITESPACE THEN ws_end(t, i + 1) ELSE i

RECURSIVE line_end(_, _)
\* [^\n]* taken greedily from offset i: the offset where the line ends
line_end(t, i) ==
    IF i < Len(t) /\ Char(t, i) # NL THEN line_end(t, i + 1) ELSE i

\* \s*\n from offset i: the offsets just after a line break inside the run of
\* whitespace that starts at i (the greedy \s* stops before the last of them)
newline_ends(t, i) == {q \in (i + 1)..ws_end(t, i) : Char(t, q - 1) = NL}

RECURSIVE words_end(_, _, _)
\* w1\s+w2\s+...\s+wn at offset i: the offset where the match ends, or -1
words_end(t, i, words) ==
    IF ~StartsAt(t, i, Head(words)) THEN -1
    ELSE LET e == i + Len(Head(words))
         IN  IF Len(words) = 1 THEN e
             ELSE IF ws_end(t, e) > e THEN words_end(t, ws_end(t, e), Tail(words))
             ELSE -1

\* kw\s+[^\n]+$ at offset i (kw is "from" or "import"): \s+ gives back
\* whitespace until a character other than a line break follows it
import_stmt_end(t, i, kw) ==
    IF ~StartsAt(t, i, kw) THEN -1
    ELSE LET w == i + Len(kw)
             J == {j \in (w + 1)..ws_end(t, w) : j < Len(t) /\ Char(t, j) # NL}
         IN  IF J = {} THEN -1 ELSE line_end(t, Max(J))

\* (?:from\s+[^\n]+$|import\s+[^\n]+$) at offset i
import_line_end(t, i) ==
    IF import_stmt_end(t, i, "from") # -1
    THEN import_stmt_end(t, i, "from")
    ELSE import_stmt_end(t, i, "import")

RECURSIVE import_block_end(_, _)
\* (?:\n(?:from\s+[^\n]+$|import\s+[^\n]+$))* from offset e
import_block_end(t, e) ==
    IF e < Len(t) /\ Char(t, e) = NL /\ import_line_end(t, e + 1) # -1
    THEN import_block_end(t, import_line_end(t, e + 1))
    ELSE e

\* generate_cmd.py:207
IMPORTS_PATTERN ==
    "(?ms)(^from\\s+[^\\n]+$|^import\\s+[^\\n]+$)(?:\\n(?:from\\s+[^\\n]+$|import\\s+[^\\n]+$))*"

\* the first block of consecutive import lines
search_imports(t) ==
    LET starts == {i \in 0..Len(t) :
                      /\ i = 0 \/ Char(t, i - 1) = NL
                      /\ import_line_end(t, i) # -1}
    IN  IF starts = {} THEN NoMatch
        ELSE <<Min(starts), import_block_end(t, import_line_end(t, Min(starts)))>>

\* def\s+NAME\( at offset i: the offset after the parenthesis, or -1
def_head_end(t, i, name) == words_end(t, i, <<"def", name \o "(">>)

\* \n\s*w1\s+...\s+wn at offset p
tail_end(t, p, words) ==
    IF p < Len(t) /\ Char(t, p) = NL THEN words_end(t, ws_end(t, p + 1), words) ELSE -1

\* def\s+NAME\([^\)]*\):\s*\n(.*?)\n\s*WORDS at offset i: the offset where the
\* match ends, or -1.  \s*\n is greedy (the last line break of the whitespace
\* that lets the rest match), (.*?) is lazy (the first tail after it).
def_block_end(t, i, name, words) ==
    LET p == def_head_end(t, i, name)
        c == IF p = -1 THEN -1 ELSE str_find(t, ")", p)
    IN  IF c = -1 \/ ~StartsAt(t, c, "):") THEN -1
        ELSE LET tails == {k \in (c + 2)..Len(t) : tail_end(t, k, words) # -1}
                 good == {q \in newline_ends(t, c + 2) : \E k \in tails : k >= q}
             IN  IF good = {} THEN -1
                 ELSE tail_end(t, Min({k \in tails : k >= Max(good)}), words)

search_def_block(t, name, words) ==
    LET starts == {i \in 0..Len(t) :
                      StartsAt(t, i, "def") /\ def_block_end(t, i, name, words) # -1}
    IN  IF starts = {} THEN NoMatch
        ELSE <<Min(starts), def_block_end(t, Min(starts), name, words)>>

\* generate_cmd.py:213
REGISTER_PATTERN ==
    "(?ms)def\\s+build_api_blueprint\\([^\\)]*\\):\\s*\\n(.*?)\\n\\s*return\\s+api"

\* generate_cmd.py:219
INIT_PATTERN ==
    "(?ms)def\\s+register_http\\([^\\)]*\\):\\s*\\n(.*?)\\n\\s*app\\.register_blueprint\\(api_bp\\)"

\* generate_cmd.py:239
AFTER_PATTERN ==
    "from\\s+\\.\\.\\s*infra\\.db\\.base\\s+import\\s+init_engine\\s*\\n"

\* from\s+\.\.\s*infra\.db\.base\s+import\s+init_engine\s*\n at offset i
after_pattern_end(t, i) ==
    LET a == words_end(t, i, <<"from", "..">>)
        c == IF a = -1 THEN -1
             ELSE words_end(t, ws_end(t, a), <<"infra.db.base", "import", "init_engine">>)
    IN  IF c = -1 \/ newline_ends(t, c) = {} THEN -1 ELSE Max(newline_ends(t, c))

search_after_pattern(t) ==
    LET starts == {i \in 0..Len(t) : StartsAt(t, i, "from") /\ after_pattern_end(t, i) # -1}
    IN  IF starts = {} THEN NoMatch
        ELSE <<Min(starts), after_pattern_end(t, Min(starts))>>

\* generate_cmd.py:261
FEATURES_PATTERN == "(def\\s+register_features\\(.*?\\):\\s*\\n)"

\* (def\s+register_features\(.*?\):\s*\n) at offset i, with re.DOTALL
features_head_end(t, i) ==
    LET p == def_head_end(t, i, "register_features")
        closes == IF p = -1 THEN {}
                  ELSE {c \in p..Len(t) : StartsAt(t, c, "):") /\ newline_ends(t, c + 2) # {}}
    IN  IF closes = {} THEN -1 ELSE Max(newline_ends(t, Min(closes) + 2))

search_features_head(t) ==
    LET starts == {i \in 0..Len(t) : StartsAt(t, i, "def") /\ features_head_end(t, i) # -1}
    IN  IF starts = {} THEN NoMatch
        ELSE <<Min(starts), features_head_end(t, Min(starts))>>

\* re.search(pattern, t): the span of the leftmost match
re_search(pattern, t) ==
    CASE pattern = IMPORTS_PATTERN -> search_imports(t)
      [] pattern = REGISTER_PATTERN ->
            search_def_block(t, "build_api_blueprint", <<"return", "api">>)
      [] pattern = INIT_PATTERN ->
            search_def_block(t, "register_http", <<"app.register_blueprint(api_bp)">>)
      [] pattern = AFTER_PATTERN -> search_after_pattern(t)
      [] pattern = FEATURES_PATTERN -> search_features_head(t)
      [] OTHER -> search_literal(pattern, t)

----------------------------------------------------------------------------
(* insert_once (generate_cmd.py:188-201).                                  *)

\* `if fallback_pattern:` -- None and "" are both falsy
truthy(pattern) == pattern # None /\ pattern[1] # ""

\* insert_once with the duplicate check (lines 189-190) left out
insert_once_step_no_duplicate_check(t, n, a, pattern) ==
    IF str_in(a, t) THEN "marker"
    ELSE IF truthy(pattern) /\ re_search(pattern[1], t) # NoMatch THEN "regex"
    ELSE "append"

\* insert_once with the anchor looked for before the payload
insert_once_step_anchor_first(t, n, a, pattern) ==
    IF str_in(a, t) THEN "marker"
    ELSE IF str_in(n, t) THEN "duplicate"
    ELSE IF truthy(pattern) /\ re_search(pattern[1], t) # NoMatch THEN "regex"
    ELSE "append"

\* insert_once with the regex fallback tried before the marker
insert_once_step_regex_first(t, n, a, pattern) ==
    IF str_in(n, t) THEN "duplicate"
    ELSE IF truthy(pattern) /\ re_search(pattern[1], t) # NoMatch THEN "regex"
    ELSE IF str_in(a, t) THEN "marker"
    ELSE "append"

\* The step of insert_once that returns: "duplicate" (line 190), "marker"
\* (line 192), "regex" (line 198 or 200), "append" (line 201).
insert_once_step(t, n, a, pattern) ==
    IF str_in(n, t) THEN "duplicate"
    ELSE IF str_in(a, t) THEN "marker"
    ELSE IF truthy(pattern) /\ re_search(pattern[1], t) # NoMatch THEN "regex"
    ELSE "append"

\* line 192: text.replace(anchor, ...)
marker_insert(t, n, a, b) ==
    str_replace(t, a, IF ~b THEN n \o NL \o a ELSE a \o NL \o n)

\* lines 196-200 with the matched text overwritten instead of kept
regex_insert_overwriting(t, n, b, m) ==
    IF b
    THEN Slice(t, 0, m[1]) \o n \o NL \o Slice(t, m[2], Len(t))
    ELSE Slice(t, 0, m[1]) \o NL \o n \o Slice(t, m[2], Len(t))

\* lines 196-200: m is the span of the match
regex_insert(t, n, b, m) ==
    IF b
    THEN Slice(t, 0, m[1]) \o n \o NL \o Slice(t, m[1], Len(t))
    ELSE Slice(t, 0, m[2]) \o NL \o n \o Slice(t, m[2], Len(t))

\* line 201 without the closing line break
append_insert_no_newline(t, n) == str_rstrip(t) \o NL \o n

\* line 201
append_insert(t, n) == str_rstrip(t) \o NL \o n \o NL

insert_once(t, n, a, b, pattern) ==
    LET s == insert_once_step(t, n, a, pattern)
    IN  CASE s = "duplicate" -> t
          [] s = "marker" -> marker_insert(t, n, a, b)
          [] s = "regex" -> regex_insert(t, n, b, re_search(pattern[1], t))
          [] s = "append" -> append_insert(t, n)

----------------------------------------------------------------------------
(* The inputs insert_once is called on: Documents of up to MaxLines lines, *)
(* with or without a final line break.                                     *)

MARKER == "# [marker]"

LineSet ==
    { "", "a", "b", "bc", "x", MARKER, "a " \o MARKER }

RECURSIVE SeqsUpTo(_, _)
SeqsUpTo(S, n) ==
    IF n = 0 THEN {<<>>}
    ELSE LET shorter == SeqsUpTo(S, n - 1)
         IN  shorter \cup {Append(q, e) : q \in {r \in shorter : Len(r) = n - 1}, e \in S}

Documents ==
    { str_join(NL, ls) \o (IF nl THEN NL ELSE "") :
        ls \in SeqsUpTo(LineSet, MaxLines), nl \in BOOLEAN }

Needles == { "x", "c" }

Patterns == { None, Some(""), Some("b") }

\* no call of _render_template_dir
NoRender == walk = <<>> /\ outputs = {} /\ out_dirs = {}

\* the release script is not run
NoRelease ==
    /\ argv = <<>>
    /\ rel_pc = "exit"
    /\ rel_stack = <<>>
    /\ current = ""
    /\ new_version = ""
    /\ pending = ""
    /\ rel_log = <<>>
    /\ rel_exit = 0
    /\ forge_pyproject = ""
    /\ forge_init = ""
    /\ temp_verify = FALSE
    /\ branch = ""
    /\ dirty = {}
    /\ tags = {}
    /\ commits = <<>>
    /\ pushed = {}

\* no call of bump_version
NoBump ==
    /\ current_version = ""
    /\ version_type = ""
    /\ bumped = <<>>
    /\ bump_pc = "start"

\* no project on disk: insert_once is called on its own
NoProject ==
    /\ main_py = FALSE
    /\ api_py = ""
    /\ di_wiring_py = ""
    /\ pyproject_toml = ""
    /\ openapi_py = None
    /\ files = {}
    /\ history = <<>>
    /\ branches = <<>>
    /\ returned = <<>>
    /\ exit_code = 0

InitInsertOnce ==
    /\ text \in Documents
    /\ needle \in Needles
    /\ anchor = MARKER
    /\ before \in BOOLEAN
    /\ fallback_pattern \in Patterns
    /\ result = ""
    /\ step = "none"
    /\ pc = "start"
    /\ NoProject
    /\ NoBump
    /\ NoRelease
    /\ NoRender

\* insert_once(text, needle, anchor, before, fallback_pattern)
Call ==
    /\ pc = "start"
    /\ result' = insert_once(text, needle, anchor, before, fallback_pattern)
    /\ step' = insert_once_step(text, needle, anchor, fallback_pattern)
    /\ pc' = "once"
    /\ UNCHANGED <<text, needle, anchor, before, fallback_pattern>>
    /\ UNCHANGED <<project_vars, bump_vars, release_vars, render_vars>>

\* the same Insertion Request applied to the Document the first call returned
CallAgain ==
    /\ pc = "once"
    /\ result' = insert_once(result, needle, anchor, before, fallback_pattern)
    /\ step' = insert_once_step(result, needle, anchor, fallback_pattern)
    /\ pc' = "twice"
    /\ UNCHANGED <<text, needle, anchor, before, fallback_pattern>>
    /\ UNCHANGED <<project_vars, bump_vars, release_vars, render_vars>>

NextInsertOnce == Call \/ CallAgain

SpecInsertOnce == InitInsertOnce /\ [][NextInsertOnce]_vars

----------------------------------------------------------------------------
(* `forge generate resource <bc> <entity>` (generate_cmd.py:130-271).       *)

LOWER == "abcdefghijklmnopqrstuvwxyz"

UPPER == "ABCDEFGHIJKLMNOPQRSTUVWXYZ"

\* c.upper() and c.lower() of one character
char_upper(c) ==
    IF \E k \in 0..25 : Char(LOWER, k) = c
    THEN Char(UPPER, CHOOSE k \in 0..25 : Char(LOWER, k) = c)
    ELSE c

char_lower(c) ==
    IF \E k \in 0..25 : Char(UPPER, k) = c
    THEN Char(LOWER, CHOOSE k \in 0..25 : Char(UPPER, k) = c)
    ELSE c

\* line 135: bc.replace("-", "_")
bc_of(bc) == str_replace(bc, "-", "_")

\* line 136: entity[0].upper() + entity[1:]
Entity_of(entity) == char_upper(Char(entity, 0)) \o Slice(entity, 1, Len(entity))

\* line 137: entity[0].lower() + entity[1:]
name_of(entity) == char_lower(Char(entity, 0)) \o Slice(entity, 1, Len(entity))

\* the package _detect_package finds (src/<pkg>/main.py)
pkg == "shop"

\* lines 184-186
import_line(bc, name) ==
    "from ." \o bc \o ".controller import bp as " \o name
        \o "_bp, init_controller as init_" \o name \o "_controller"

register_line(name) == "    api.register_blueprint(" \o name \o "_bp)"

init_line(name) == "    init_" \o name \o "_controller(container)"

\* lines 206, 212, 218
AUTO_IMPORTS_ANCHOR == "# [forge:auto-imports]"

AUTO_REGISTER_ANCHOR == "    # [forge:auto-register]"

AUTO_INIT_ANCHOR == "    # [forge:auto-init]"

\* lines 203-220: the three patches of api.py, in this order
patch_api(api_content, bc, name) ==
    The({insert_once(a2, init_line(name),
                     AUTO_INIT_ANCHOR, FALSE, Some(INIT_PATTERN)) :
         a2 \in {insert_once(a1, register_line(name),
                             AUTO_REGISTER_ANCHOR, FALSE, Some(REGISTER_PATTERN)) :
                 a1 \in {insert_once(api_content, import_line(bc, name),
                                     AUTO_IMPORTS_ANCHOR, FALSE,
                                     Some(IMPORTS_PATTERN))}}})

\* lines 203-220: the step each of the three insert_once calls returns at
patch_api_steps(api_content, bc, name) ==
    The({<<insert_once_step(api_content, import_line(bc, name),
                            AUTO_IMPORTS_ANCHOR, Some(IMPORTS_PATTERN)),
           insert_once_step(a[1], register_line(name),
                            AUTO_REGISTER_ANCHOR, Some(REGISTER_PATTERN)),
           insert_once_step(a[2], init_line(name),
                            AUTO_INIT_ANCHOR, Some(INIT_PATTERN))>> :
         a \in {<<a1, insert_once(a1, register_line(name),
                                  AUTO_REGISTER_ANCHOR, FALSE, Some(REGISTER_PATTERN))>> :
                a1 \in {insert_once(api_content, import_line(bc, name),
                                    AUTO_IMPORTS_ANCHOR, FALSE,
                                    Some(IMPORTS_PATTERN))}}})

\* lines 227-228
import_repo(bc, Entity) ==
    "from " \o pkg \o ".infra." \o bc \o ".repo_sqlalchemy import SqlAlchemy"
        \o Entity \o "Repository\n"

import_service(bc, Entity) ==
    "from " \o pkg \o ".app." \o bc \o ".services import " \o Entity \o "Service\n"

\* insert_after_line without the `payload in text` checks (lines 232, 234)
insert_after_line_unchecked(t, after_pattern, payload) ==
    LET m == re_search(after_pattern, t)
    IN  IF m = NoMatch
        THEN payload \o t
        ELSE Slice(t, 0, m[2]) \o payload \o Slice(t, m[2], Len(t))

\* lines 230-235
insert_after_line(t, after_pattern, payload) ==
    LET m == re_search(after_pattern, t)
    IN  IF m = NoMatch
        THEN IF str_in(payload, t) THEN t ELSE payload \o t
        ELSE IF str_in(payload, t) THEN t
             ELSE Slice(t, 0, m[2]) \o payload \o Slice(t, m[2], Len(t))

\* line 243
func_head(name) == "def register_" \o name \o "(container"

\* lines 246-254
register_function(bc, Entity, name) ==
    "\n\n\ndef register_" \o name \o "(container: Container) -> None:\n"
        \o "    container.register(\n"
        \o "        \"" \o bc \o "." \o name \o ".repo\",\n"
        \o "        lambda: SqlAlchemy" \o Entity
        \o "Repository(container.get(\"db.session_factory\")),\n"
        \o "    )\n"
        \o "    container.register(\n"
        \o "        \"" \o bc \o "." \o name \o ".service\",\n"
        \o "        container.factory(" \o Entity \o "Service, repo=\"" \o bc
        \o "." \o name \o ".repo\"),\n"
        \o "    )\n"

\* line 257
call_line(name) == "    register_" \o name \o "(container)\n"

\* lines 260-266: re.sub(pattern, r"\1" + call_line, w, count=1)
re_sub_features(w, call) ==
    LET m == re_search(FEATURES_PATTERN, w)
    IN  IF m = NoMatch THEN w
        ELSE Slice(w, 0, m[2]) \o call \o Slice(w, m[2], Len(w))

\* lines 237-266: the patches of di_wiring.py
patch_wiring(w, bc, Entity, name) ==
    The({IF str_in("def register_features(", w2) /\ ~str_in(call_line(name), w2)
         THEN re_sub_features(w2, call_line(name))
         ELSE w2 :
         w2 \in {IF ~str_in(func_head(name), w1)
                 THEN w1 \o register_function(bc, Entity, name)
                 ELSE w1 :
                 w1 \in {insert_after_line(w, AFTER_PATTERN,
                                           import_repo(bc, Entity)
                                              \o import_service(bc, Entity))}}})

\* Path.write_text: the file at path now holds content
write_text(fs, path, content) ==
    {f \in fs : f[1] # path} \cup {<<path, content>>}

\* utils/fs.py:4-10, for one directory: __init__.py is created when missing
ensure_init_file(fs, dir) ==
    IF \E f \in fs : f[1] = dir \o "/__init__.py"
    THEN fs
    ELSE fs \cup {<<dir \o "/__init__.py", "">>}

\* lines 149-178: the package markers and the five rendered modules; a
\* rendered template is written as TEMPLATE(arguments of render)
write_modules(fs, bc, Entity, name) ==
    LET root == "src/" \o pkg \o "/"
        f1 == ensure_init_file(fs, root \o "domain/" \o bc)
        f2 == ensure_init_file(f1, root \o "app/" \o bc)
        f3 == ensure_init_file(f2, root \o "infra/" \o bc)
        f4 == ensure_init_file(f3, root \o "interfaces/http/" \o bc)
        f5 == write_text(f4, root \o "domain/" \o bc \o "/entities.py",
                         "ENTITY_TMPL(Entity=" \o Entity \o ")")
        f6 == write_text(f5, root \o "domain/" \o bc \o "/repositories.py",
                         "REPO_IFACE_TMPL(Entity=" \o Entity \o ")")
        f7 == write_text(f6, root \o "infra/" \o bc \o "/repo_sqlalchemy.py",
                         "REPO_SQLA_TMPL(Entity=" \o Entity \o ", bc=" \o bc
                            \o ", table=" \o name \o "s)")
        f8 == write_text(f7, root \o "app/" \o bc \o "/services.py",
                         "SERVICE_TMPL(Entity=" \o Entity \o ", bc=" \o bc \o ")")
    IN  write_text(f8, root \o "interfaces/http/" \o bc \o "/controller.py",
                   "CONTROLLER_TMPL(bc=" \o bc \o ", name=" \o name \o ")")

----------------------------------------------------------------------------
(* `forge plugin openapi` (plugin_cmd.py).                                 *)

\* lines 10-13
OPENAPI_IMPORT == "from .ext.openapi import configure_openapi"

API_INIT_CALL == "configure_openapi(app)"

FORGE_AUTO_IMPORTS == "# [forge:auto-imports]"

FORGE_AUTO_INIT == "# [forge:auto-init]"

\* the text of lines 193-227, written to ext/openapi.py
OPENAPI_EXT == "_OPENAPI_EXT"

\* the 0-based indices of a list
Indices(lines) == 0..(Len(lines) - 1)

\* lines.insert(i, x)
list_insert(lines, i, x) ==
    SubSeq(lines, 1, i) \o <<x>> \o SubSeq(lines, i + 1, Len(lines))

\* lines[i] = x
list_set(lines, i, x) == [lines EXCEPT ![i + 1] = x]

\* line 77: re.search(rf'["\']({dep})["><=~!\s]', content)
dep_declared(content, dep) ==
    \E i \in 0..(Len(content) - Len(dep) - 2) :
        /\ Char(content, i) \in {"\"", "'"}
        /\ StartsAt(content, i + 1, dep)
        /\ Char(content, i + 1 + Len(dep))
              \in ({"\"", ">", "<", "=", "~", "!"} \cup WHITESPACE)

\* line 71
required_deps == <<"flask-smorest", "marshmallow">>

\* lines 74-78
missing_deps(content) ==
    SelectSeq(required_deps, LAMBDA dep : ~dep_declared(content, dep))

RECURSIVE deps_to_insert(_)
\* line 90: "".join(f'"{dep}>=0",' for dep in missing_deps)
deps_to_insert(deps) ==
    IF deps = <<>> THEN ""
    ELSE "\"" \o Head(deps) \o ">=0\"," \o deps_to_insert(Tail(deps))

RECURSIVE insert_dep_lines(_, _, _)
\* lines 94-95: lines.insert(i + 1 + j, f'    "{dep}>=0",') for each dep
insert_dep_lines(lines, at, deps) ==
    IF deps = <<>> THEN lines
    ELSE insert_dep_lines(list_insert(lines, at, "    \"" \o Head(deps) \o ">=0\","),
                          at + 1, Tail(deps))

\* lines 84-96: the first line holding "dependencies = [" is patched
add_dependencies(lines, deps) ==
    LET found == {i \in Indices(lines) : str_in("dependencies = [", lines[i + 1])}
    IN  IF found = {} THEN lines
        ELSE LET i == Min(found)
                 line == lines[i + 1]
             IN  IF str_endswith(str_strip(line), "]")
                 THEN LET closing_bracket == str_rfind(line, "]")
                      IN  list_set(lines, i,
                                   Slice(line, 0, closing_bracket)
                                      \o deps_to_insert(deps)
                                      \o Slice(line, closing_bracket, Len(line)))
                 ELSE insert_dep_lines(lines, i + 1, deps)

\* lines 68-99: <<the bool returned, the content of pyproject.toml after>>
update_pyproject_dependencies(content) ==
    The({IF missing = <<>>
         THEN <<FALSE, content>>
         ELSE <<TRUE, The({str_join("\n", patched) :
                           patched \in {add_dependencies(lines, missing) :
                                        lines \in {str_split(content, "\n")}}})>> :
         missing \in {missing_deps(content)}})

\* lines 151-168
find_import_insertion_point(lines) ==
    LET imports == {i \in Indices(lines) :
                       /\ str_strip(lines[i + 1]) # ""
                       /\ str_in("import ", lines[i + 1]) \/ str_in("from ", lines[i + 1])
                       /\ ~StartsAt(lines[i + 1], 0, "#")}
        code == {i \in Indices(lines) :
                    str_strip(lines[i + 1]) # "" /\ ~StartsAt(lines[i + 1], 0, "#")}
    IN  IF imports # {} THEN Max(imports) + 1
        ELSE IF code # {} THEN Min(code)
        ELSE 0

\* the lines that hold s
lines_with(lines, s) == {i \in Indices(lines) : str_in(s, lines[i + 1])}

\* lines 133-148: which return of _add_openapi_import is reached
add_openapi_import_branch(lines) ==
    IF lines_with(lines, OPENAPI_IMPORT) # {} THEN "exists"
    ELSE IF lines_with(lines, FORGE_AUTO_IMPORTS) # {} THEN "marker"
    ELSE "insertion_point"

\* lines 133-148: <<the bool returned, the list after>>
add_openapi_import(lines) ==
    CASE add_openapi_import_branch(lines) = "exists" -> <<FALSE, lines>>
      [] add_openapi_import_branch(lines) = "marker" ->
            <<TRUE, list_set(lines, Min(lines_with(lines, FORGE_AUTO_IMPORTS)),
                             OPENAPI_IMPORT \o "\n" \o FORGE_AUTO_IMPORTS)>>
      [] add_openapi_import_branch(lines) = "insertion_point" ->
            <<TRUE, list_insert(lines, find_import_insertion_point(lines),
                                OPENAPI_IMPORT)>>

\* lines 180-188: the first line after line i of register_http that holds the
\* marker, or is neither blank nor a comment of the function body
init_call_target(lines, i) ==
    {j \in (i + 1)..(Len(lines) - 1) :
        \/ str_in(FORGE_AUTO_INIT, lines[j + 1])
        \/ str_strip(lines[j + 1]) # "" /\ ~StartsAt(lines[j + 1], 0, "    #")}

\* lines 171-190: which return of _add_api_init_call is reached
add_api_init_call_branch(lines) ==
    LET defs == lines_with(lines, "def register_http(app")
    IN  IF lines_with(lines, API_INIT_CALL) # {} THEN "exists"
        ELSE IF defs = {} \/ init_call_target(lines, Min(defs)) = {} THEN "not_found"
        ELSE IF str_in(FORGE_AUTO_INIT,
                       lines[Min(init_call_target(lines, Min(defs))) + 1])
        THEN "marker"
        ELSE "first_statement"

\* lines 171-190: <<the bool returned, the list after>>
add_api_init_call(lines) ==
    LET j == Min(init_call_target(lines, Min(lines_with(lines, "def register_http(app"))))
    IN  CASE add_api_init_call_branch(lines) \in {"exists", "not_found"} ->
                <<FALSE, lines>>
          [] add_api_init_call_branch(lines) = "marker" ->
                <<TRUE, list_insert(lines, j + 1, "    " \o API_INIT_CALL)>>
          [] add_api_init_call_branch(lines) = "first_statement" ->
                <<TRUE, list_insert(lines, j, "    " \o API_INIT_CALL)>>

\* lines 102-130: <<the bool returned, the content of api.py after>>
update_api_file(content) ==
    The({<<r[1][1] \/ r[2][1],
           IF r[1][1] \/ r[2][1] THEN str_join("\n", r[2][2]) ELSE content>> :
         r \in {<<r1, IF ~str_in(API_INIT_CALL, content)
                      THEN add_api_init_call(r1[2])
                      ELSE <<FALSE, r1[2]>>>> :
                r1 \in {IF ~str_in(OPENAPI_IMPORT, content)
                        THEN add_openapi_import(lines)
                        ELSE <<FALSE, lines>> :
                        lines \in {str_split(content, "\n")}}}})

\* lines 109-125: the branch each of the two patches takes
update_api_file_branches(content) ==
    The({<<r[1], IF ~str_in(API_INIT_CALL, content)
                 THEN add_api_init_call_branch(r[2])
                 ELSE "exists">> :
         r \in {IF ~str_in(OPENAPI_IMPORT, content)
                THEN <<add_openapi_import_branch(lines), add_openapi_import(lines)[2]>>
                ELSE <<"exists", lines>> :
                lines \in {str_split(content, "\n")}}})

----------------------------------------------------------------------------
(* The projects the commands run in.  api.py and di_wiring.py come from    *)
(* the project template: with the forge markers, without them (so that the *)
(* regex fallbacks apply), and without anything to hold on to.             *)

API_WITH_MARKERS ==
    "from flask import Blueprint\n"
        \o "# [forge:auto-imports]\n"
        \o "\n"
        \o "def build_api_blueprint():\n"
        \o "    api = Blueprint(\"api\", __name__)\n"
        \o "    # [forge:auto-register]\n"
        \o "    return api\n"
        \o "\n"
        \o "def register_http(app, container):\n"
        \o "    # [forge:auto-init]\n"
        \o "    api_bp = build_api_blueprint()\n"
        \o "    app.register_blueprint(api_bp)\n"

API_WITHOUT_MARKERS ==
    "from flask import Blueprint\n"
        \o "\n"
        \o "def build_api_blueprint():\n"
        \o "    api = Blueprint(\"api\", __name__)\n"
        \o "    return api\n"
        \o "\n"
        \o "def register_http(app, container):\n"
        \o "    api_bp = build_api_blueprint()\n"
        \o "    app.register_blueprint(api_bp)\n"

API_BARE == "# api\n"

ApiFiles == {API_WITH_MARKERS, API_WITHOUT_MARKERS, API_BARE}

WIRING_TEMPLATE ==
    "from .di import Container\n"
        \o "from ..infra.db.base import init_engine\n"
        \o "\n"
        \o "def register_features(container):\n"
        \o "    init_engine(container)\n"

WIRING_ANNOTATED ==
    "from .di import Container\n"
        \o "from ..infra.db.base import init_engine\n"
        \o "\n"
        \o "def register_features(container: Container) -> None:\n"
        \o "    init_engine(container)\n"

WIRING_BARE == "from .di import Container\n"

WiringFiles == {WIRING_TEMPLATE, WIRING_ANNOTATED, WIRING_BARE}

PYPROJECT_ONE_LINE == "[project]\ndependencies = [\"flask>=3.0\"]\n"

PYPROJECT_MULTI_LINE ==
    "[project]\ndependencies = [\n    \"flask>=3.0\",\n]\n"

PYPROJECT_EMPTY_ARRAY == "[project]\ndependencies = []\n"

PYPROJECT_NO_ARRAY == "[project]\nname = \"shop\"\n"

PyprojectFiles ==
    {PYPROJECT_ONE_LINE, PYPROJECT_MULTI_LINE, PYPROJECT_EMPTY_ARRAY,
     PYPROJECT_NO_ARRAY}

BoundedContexts == {"catalog", "back-office"}

Entities == {"Product", "order"}

\* no call of insert_once on its own: the commands call it
NoInsertOnce ==
    /\ text = ""
    /\ needle = ""
    /\ anchor = ""
    /\ before = FALSE
    /\ fallback_pattern = None
    /\ result = ""
    /\ step = "none"
    /\ pc = "start"

Init ==
    /\ NoInsertOnce
    /\ NoBump
    /\ NoRelease
    /\ NoRender
    /\ main_py \in BOOLEAN
    /\ api_py \in ApiFiles
    /\ di_wiring_py \in WiringFiles
    /\ pyproject_toml \in PyprojectFiles
    /\ openapi_py = None
    /\ files = {}
    /\ history = <<>>
    /\ branches = <<>>
    /\ returned = <<>>
    /\ exit_code = 0

\* the command line of the last forge run, <<>> before the first
last_cmd == IF history = <<>> THEN <<>> ELSE history[Len(history)]

\* generate_cmd.py:274-277 and plugin_cmd.py:16-19: SystemExit with a message
\* ends the process with status 1 before anything is written
DetectionFails(cmd) ==
    /\ ~main_py
    /\ history' = Append(history, cmd)
    /\ branches' = <<>>
    /\ returned' = <<>>
    /\ exit_code' = 1
    /\ UNCHANGED <<main_py, api_py, di_wiring_py, pyproject_toml, openapi_py, files>>

\* forge generate resource <bc> <entity>
GenerateResource(bc, entity) ==
    /\ Len(history) < MaxRuns
    /\ \/ DetectionFails(<<"generate", "resource", bc, entity>>)
       \/ /\ main_py
          /\ files' = write_modules(files, bc_of(bc), Entity_of(entity), name_of(entity))
          /\ api_py' = patch_api(api_py, bc_of(bc), name_of(entity))
          /\ di_wiring_py' =
                patch_wiring(di_wiring_py, bc_of(bc), Entity_of(entity), name_of(entity))
          /\ history' = Append(history, <<"generate", "resource", bc, entity>>)
          /\ branches' = patch_api_steps(api_py, bc_of(bc), name_of(entity))
          /\ returned' = <<>>
          /\ exit_code' = 0
          /\ UNCHANGED <<main_py, pyproject_toml, openapi_py>>
    /\ UNCHANGED <<insert_vars, bump_vars, release_vars, render_vars>>

\* forge plugin openapi (plugin_cmd.py:22-65); pyproject.toml and api.py exist
PluginOpenapi ==
    /\ Len(history) < MaxRuns
    /\ \/ DetectionFails(<<"plugin", "openapi">>)
       \/ /\ main_py
          /\ openapi_py' = IF openapi_py = None THEN Some(OPENAPI_EXT) ELSE openapi_py
          /\ pyproject_toml' = update_pyproject_dependencies(pyproject_toml)[2]
          /\ api_py' = update_api_file(api_py)[2]
          /\ history' = Append(history, <<"plugin", "openapi">>)
          /\ branches' = update_api_file_branches(api_py)
          /\ returned' = <<update_pyproject_dependencies(pyproject_toml)[1],
                           update_api_file(api_py)[1]>>
          /\ exit_code' = 0
          /\ UNCHANGED <<main_py, di_wiring_py, files>>
    /\ UNCHANGED <<insert_vars, bump_vars, release_vars, render_vars>>

\* forge run dev (run_cmd.py:11-33), without --module: typer.Exit(2) when no
\* src/<pkg>/main.py is found; else the application module is run and returns
RunDev ==
    /\ Len(history) < MaxRuns
    /\ history' = Append(history, <<"run", "dev">>)
    /\ branches' = <<>>
    /\ returned' = <<>>
    /\ exit_code' = IF main_py THEN 0 ELSE 2
    /\ UNCHANGED <<main_py, api_py, di_wiring_py, pyproject_toml, openapi_py, files>>
    /\ UNCHANGED <<insert_vars, bump_vars, release_vars, render_vars>>

Next ==
    \/ \E bc \in BoundedContexts, entity \in Entities : GenerateResource(bc, entity)
    \/ PluginOpenapi
    \/ RunDev

Spec == Init /\ [][Next]_vars

----------------------------------------------------------------------------
(* bump_version (src/scripts/forge_release.py:92-108).  A call returns     *)
(* <<"return", value>> or <<"raise", exception>>.                          *)

DIGITS == "0123456789"

RECURSIVE str_of_int(_)
\* f"{n}" for an int n >= 0: its decimal digits
str_of_int(n) ==
    IF n < 10 THEN Char(DIGITS, n)
    ELSE str_of_int(n \div 10) \o Char(DIGITS, n % 10)

\* whether int(s) accepts s, for s without sign, blanks or underscores
is_int(s) ==
    /\ s # ""
    /\ \A i \in 0..(Len(s) - 1) : \E d \in 0..9 : Char(s, i) = Char(DIGITS, d)

RECURSIVE int_of_str(_)
\* int(s) for a string of decimal digits
int_of_str(s) ==
    IF s = "" THEN 0
    ELSE 10 * int_of_str(Slice(s, 0, Len(s) - 1))
            + (CHOOSE d \in 0..9 : Char(s, Len(s) - 1) = Char(DIGITS, d))

\* line 108: f"{major}.{minor}.{patch}"
format_version(major, minor, patch) ==
    str_of_int(major) \o "." \o str_of_int(minor) \o "." \o str_of_int(patch)

\* bump_version whose minor bump forgets to reset patch
bump_version_minor_keeps_patch(version, kind) ==
    LET parts == str_split(version, ".")
        major == int_of_str(parts[1])
        minor == int_of_str(parts[2])
        patch == int_of_str(parts[3])
    IN  IF Len(parts) # 3 \/ \E k \in 1..Len(parts) : ~is_int(parts[k])
        THEN <<"raise", "ValueError">>
        ELSE CASE kind = "patch" -> <<"return", format_version(major, minor, patch + 1)>>
               [] kind = "minor" -> <<"return", format_version(major, minor + 1, patch)>>
               [] kind = "major" -> <<"return", format_version(major + 1, 0, 0)>>
               [] OTHER -> <<"raise", "ForgeReleaseError">>

\* bump_version whose patch bump assigns 1 instead of adding 1
bump_version_patch_set_to_one(version, kind) ==
    LET parts == str_split(version, ".")
        major == int_of_str(parts[1])
        minor == int_of_str(parts[2])
    IN  IF Len(parts) # 3 \/ \E k \in 1..Len(parts) : ~is_int(parts[k])
        THEN <<"raise", "ValueError">>
        ELSE CASE kind = "patch" -> <<"return", format_version(major, minor, 1)>>
               [] kind = "minor" -> <<"return", format_version(major, minor + 1, 0)>>
               [] kind = "major" -> <<"return", format_version(major + 1, 0, 0)>>
               [] OTHER -> <<"raise", "ForgeReleaseError">>

\* lines 92-108
bump_version(version, kind) ==
    LET parts == str_split(version, ".")
        major == int_of_str(parts[1])
        minor == int_of_str(parts[2])
        patch == int_of_str(parts[3])
    IN  IF Len(parts) # 3 \/ \E k \in 1..Len(parts) : ~is_int(parts[k])
        THEN <<"raise", "ValueError">>
        ELSE CASE kind = "patch" -> <<"return", format_version(major, minor, patch + 1)>>
               [] kind = "minor" -> <<"return", format_version(major, minor + 1, 0)>>
               [] kind = "major" -> <<"return", format_version(major + 1, 0, 0)>>
               [] OTHER -> <<"raise", "ForgeReleaseError">>

\* the version numbers and the bump kinds bump_version is called with
VersionNumbers == 0..MaxVersion

VersionTypes == {"patch", "minor", "major", "Major", ""}

InitBump ==
    /\ NoInsertOnce
    /\ NoProject
    /\ NoRelease
    /\ NoRender
    /\ current_version \in {format_version(v[1], v[2], v[3]) :
                               v \in VersionNumbers \X VersionNumbers \X VersionNumbers}
    /\ version_type \in VersionTypes
    /\ bumped = <<>>
    /\ bump_pc = "start"

\* bump_version(current_version, version_type)
Bump ==
    /\ bump_pc = "start"
    /\ bumped' = bump_version(current_version, version_type)
    /\ bump_pc' = "once"
    /\ UNCHANGED <<current_version, version_type, insert_vars, project_vars,
                   release_vars, render_vars>>

\* bump_version(bump_version(current_version, version_type), version_type)
BumpAgain ==
    /\ bump_pc = "once"
    /\ bumped[1] = "return"
    /\ bumped' = bump_version(bumped[2], version_type)
    /\ bump_pc' = "twice"
    /\ UNCHANGED <<current_version, version_type, insert_vars, project_vars,
                   release_vars, render_vars>>

NextBump == Bump \/ BumpAgain

SpecBump == InitBump /\ [][NextBump]_vars

----------------------------------------------------------------------------
(* The two version sources of the release script                           *)
(* (src/scripts/forge_release.py:68-89, 111-129 and                        *)
(* src/scripts/check_version_sync.py).                                     *)

\* forge_release.py:72, check_version_sync.py:9: the text before \s*=
PYPROJECT_KEY == "\nversion"

\* forge_release.py:76, check_version_sync.py:10
INIT_KEY == "__version__"

RECURSIVE quoted_end(_, _)
\* [^"]* taken greedily from offset i: the offset of the next quote, or Len(t)
quoted_end(t, i) ==
    IF i < Len(t) /\ Char(t, i) # "\"" THEN quoted_end(t, i + 1) ELSE i

\* key\s*=\s*"([^"]+)" at offset i: <<start, end>> of group 1, or NoMatch
version_at(t, i, key) ==
    LET a == ws_end(t, i + Len(key))
        b == ws_end(t, a + 1)
        e == quoted_end(t, b + 1)
    IN  IF /\ StartsAt(t, i, key)
           /\ StartsAt(t, a, "=")
           /\ StartsAt(t, b, "\"")
           /\ e > b + 1
           /\ e < Len(t)
        THEN <<b + 1, e>>
        ELSE NoMatch

\* re.search(key + r'\s*=\s*"([^"]+)"', t) from offset `from`: the span of
\* group 1 of the leftmost match, or NoMatch
search_version(t, key, from) ==
    LET starts == {i \in from..Len(t) : version_at(t, i, key) # NoMatch}
    IN  IF starts = {} THEN NoMatch ELSE version_at(t, Min(starts), key)

RECURSIVE sub_version(_, _, _, _)
\* re.sub(r'(key\s*=\s*")[^"]+(")', r'\g<1>new\g<2>', t): group 1 of every
\* match, left to right, becomes new
sub_version(t, key, new, from) ==
    LET m == search_version(t, key, from)
    IN  IF m = NoMatch
        THEN Slice(t, from, Len(t))
        ELSE Slice(t, from, m[1]) \o new \o "\"" \o sub_version(t, key, new, m[2] + 1)

\* get_current_version as it would be without the comparison of the two strings
get_current_version_unchecked(pyproject_content, init_content) ==
    LET pyproject_match == search_version(pyproject_content, PYPROJECT_KEY, 0)
        init_match == search_version(init_content, INIT_KEY, 0)
        pyproject_version == Slice(pyproject_content, pyproject_match[1], pyproject_match[2])
    IN  IF pyproject_match = NoMatch \/ init_match = NoMatch
        THEN <<"raise", "ForgeReleaseError">>
        ELSE <<"return", pyproject_version>>

\* forge_release.py:68-89
get_current_version(pyproject_content, init_content) ==
    LET pyproject_match == search_version(pyproject_content, PYPROJECT_KEY, 0)
        init_match == search_version(init_content, INIT_KEY, 0)
        pyproject_version == Slice(pyproject_content, pyproject_match[1], pyproject_match[2])
        init_version == Slice(init_content, init_match[1], init_match[2])
    IN  IF pyproject_match = NoMatch \/ init_match = NoMatch
        THEN <<"raise", "ForgeReleaseError">>
        ELSE IF pyproject_version # init_version
        THEN <<"raise", "ForgeReleaseError">>
        ELSE <<"return", pyproject_version>>

\* check_version_sync.py:9-20: the exit status of the script
check_version_sync(pyproj, init_content) ==
    LET m1 == search_version(pyproj, PYPROJECT_KEY, 0)
        m2 == search_version(init_content, INIT_KEY, 0)
    IN  IF m1 = NoMatch \/ m2 = NoMatch THEN 1
        ELSE IF Slice(pyproj, m1[1], m1[2]) # Slice(init_content, m2[1], m2[2]) THEN 2
        ELSE 0

\* forge_release.py:116-119 and 123-126: the new content of a version file
update_version(content, key, version) == sub_version(content, key, version, 0)

----------------------------------------------------------------------------
\* scripts/forge_release.py: one run of the release script.  rel_pc names the
\* statement about to run as "function:line"; every external command is one
\* step whose exit status the environment chooses.

PYPROJECT_PATH == "pyproject.toml"
INIT_PATH == "src/forge/__init__.py"
TEMP_VERIFY_FILE == "temp_verify.py"
VERSION_CHOICES == {"patch", "minor", "major"}

\* the exit statuses a shell command can end with
ExitCodes == {0, 1}

\* the statuses of `python scripts/check_version_sync.py`: what the script
\* computes from the two files, or 127 when the shell finds no python
SyncExitCodes == {check_version_sync(forge_pyproject, forge_init), 127}

rel_locals == <<current, new_version, pending>>
rel_repo ==
    <<forge_pyproject, forge_init, temp_verify, branch, dirty, tags, commits,
      pushed>>
rel_frame == <<insert_vars, project_vars, bump_vars, render_vars, argv>>

Goto(label) == rel_pc' = label /\ UNCHANGED <<rel_stack, rel_exit>>

\* a called function is entered; ret is the statement after the call
Enter(label, ret) ==
    /\ rel_pc' = label
    /\ rel_stack' = <<ret>> \o rel_stack
    /\ UNCHANGED rel_exit

\* the running function returns; main returns to the interpreter, status 0
Return ==
    IF rel_stack = <<>>
    THEN rel_pc' = "exit" /\ rel_exit' = 0 /\ UNCHANGED rel_stack
    ELSE rel_pc' = Head(rel_stack) /\ rel_stack' = Tail(rel_stack)
         /\ UNCHANGED rel_exit

\* main, lines 403-411: an exception leaves every function; sys.exit(1)
Raise == rel_pc' = "exit" /\ rel_stack' = <<>> /\ rel_exit' = 1

Logged(entry) == rel_log' = Append(rel_log, entry)

\* run_command, lines 50-65, followed by the statement `next`
run_command(cmd, check, rc, next) ==
    /\ Logged(<<"run", cmd, rc>>)
    /\ IF check /\ rc # 0 THEN Raise ELSE Goto(next)

\* run_command as the last statement of a function
run_command_return(cmd, check, rc) ==
    /\ Logged(<<"run", cmd, rc>>)
    /\ IF check /\ rc # 0 THEN Raise ELSE Return

\* main, lines 360-401: argparse rejects a version_type outside the choices
\* with status 2; no command prints the help; else the command function runs
Main ==
    /\ rel_pc = "main:387"
    /\ IF argv = <<>>
       THEN rel_pc' = "exit" /\ rel_exit' = 0 /\ UNCHANGED rel_stack
       ELSE IF argv[1] \in {"prepare-release", "full-release"}
               /\ argv[2] \notin VERSION_CHOICES
       THEN rel_pc' = "exit" /\ rel_exit' = 2 /\ UNCHANGED rel_stack
       ELSE IF argv[1] = "prepare-release" THEN Goto("prepare_release:250")
       ELSE IF argv[1] = "create-release" THEN Goto("create_release:291")
       ELSE Goto("full_release:338")
    /\ UNCHANGED <<rel_log, rel_locals, rel_repo, rel_frame>>

\* prepare_release, lines 250-251
PrepareValidate ==
    /\ rel_pc = "prepare_release:250"
    /\ IF argv[2] \notin VERSION_CHOICES THEN Raise ELSE Goto("prepare_release:254")
    /\ UNCHANGED <<rel_log, rel_locals, rel_repo, rel_frame>>

\* prepare_release, lines 254-259: ForgeReleaseError of get_current_version and
\* ValueError of bump_version both end the script with status 1
PrepareVersion ==
    /\ rel_pc = "prepare_release:254"
    /\ LET got == get_current_version(forge_pyproject, forge_init)
           bumped_to == bump_version(got[2], argv[2])
       IN IF got[1] = "raise"
          THEN Raise /\ UNCHANGED <<current, new_version>>
          ELSE IF bumped_to[1] = "raise"
          THEN Raise /\ current' = got[2] /\ UNCHANGED new_version
          ELSE /\ Goto("prepare_release:262")
               /\ current' = got[2]
               /\ new_version' = bumped_to[2]
    /\ UNCHANGED <<pending, rel_log, rel_repo, rel_frame>>

\* prepare_release, lines 262-264
PrepareConfirm ==
    /\ rel_pc = "prepare_release:262"
    /\ \E answer \in BOOLEAN :
        /\ Logged(<<"ask", "update version", answer>>)
        /\ IF answer THEN Goto("prepare_release:267") ELSE Return
    /\ UNCHANGED <<rel_locals, rel_repo, rel_frame>>

\* update_version_files as it would be without lines 121-127
update_version_files_pyproject_only ==
    /\ rel_pc = "prepare_release:267"
    /\ forge_pyproject' = update_version(forge_pyproject, PYPROJECT_KEY, new_version)
    /\ dirty' = dirty
            \cup (IF forge_pyproject' # forge_pyproject THEN {PYPROJECT_PATH} ELSE {})
    /\ rel_log' = Append(rel_log, <<"write", PYPROJECT_PATH>>)
    /\ Goto("prepare_release:270")
    /\ UNCHANGED <<rel_locals, forge_init, temp_verify, branch, tags, commits,
                   pushed, rel_frame>>

\* update_version_files, lines 111-129, called at line 267
update_version_files ==
    /\ rel_pc = "prepare_release:267"
    /\ forge_pyproject' = update_version(forge_pyproject, PYPROJECT_KEY, new_version)
    /\ forge_init' = update_version(forge_init, INIT_KEY, new_version)
    /\ dirty' = dirty
            \cup (IF forge_pyproject' # forge_pyproject THEN {PYPROJECT_PATH} ELSE {})
            \cup (IF forge_init' # forge_init THEN {INIT_PATH} ELSE {})
    /\ rel_log' = rel_log \o <<<<"write", PYPROJECT_PATH>>, <<"write", INIT_PATH>>>>
    /\ Goto("prepare_release:270")
    /\ UNCHANGED <<rel_locals, temp_verify, branch, tags, commits, pushed,
                   rel_frame>>

\* run_quality_checks, line 150, entered from line 270 or line 313
QualityRuff ==
    /\ rel_pc \in {"prepare_release:270", "create_release:313"}
    /\ \E rc \in ExitCodes :
        /\ Logged(<<"run", "ruff check .", rc>>)
        /\ IF rc # 0 THEN Raise
           ELSE Enter("run_quality_checks:154",
                      IF rel_pc = "prepare_release:270"
                      THEN "prepare_release:273" ELSE "create_release:314")
    /\ UNCHANGED <<rel_locals, rel_repo, rel_frame>>

\* run_quality_checks, line 154
QualityBlack ==
    /\ rel_pc = "run_quality_checks:154"
    /\ \E rc \in ExitCodes :
        run_command("black --check .", TRUE, rc, "run_quality_checks:158")
    /\ UNCHANGED <<rel_locals, rel_repo, rel_frame>>

\* line 158 as it would be with the default check=True
QualityPytest_checked ==
    /\ rel_pc = "run_quality_checks:158"
    /\ \E rc \in ExitCodes :
        run_command("pytest -q", TRUE, rc, "run_quality_checks:162")
    /\ UNCHANGED <<rel_locals, rel_repo, rel_frame>>

\* run_quality_checks, line 158: check=False
QualityPytest ==
    /\ rel_pc = "run_quality_checks:158"
    /\ \E rc \in ExitCodes :
        run_command("pytest -q", FALSE, rc, "run_quality_checks:162")
    /\ UNCHANGED <<rel_locals, rel_repo, rel_frame>>

\* run_quality_checks, lines 162-164
QualitySync ==
    /\ rel_pc = "run_quality_checks:162"
    /\ \E rc \in SyncExitCodes :
        run_command_return("python scripts/check_version_sync.py", TRUE, rc)
    /\ UNCHANGED <<rel_locals, rel_repo, rel_frame>>

\* build_and_validate, line 172, entered from line 273 or line 314
BuildClean ==
    /\ rel_pc \in {"prepare_release:273", "create_release:314"}
    /\ \E rc \in ExitCodes :
        /\ Logged(<<"run", "rm -rf dist/", rc>>)
        /\ Enter("build_and_validate:176",
                 IF rel_pc = "prepare_release:273"
                 THEN "prepare_release:277" ELSE "create_release:318")
    /\ UNCHANGED <<rel_locals, rel_repo, rel_frame>>

\* build_and_validate, line 176
BuildPackage ==
    /\ rel_pc = "build_and_validate:176"
    /\ \E rc \in ExitCodes :
        run_command("python -m build", TRUE, rc, "build_and_validate:180")
    /\ UNCHANGED <<rel_locals, rel_repo, rel_frame>>

\* build_and_validate, line 180
BuildTwine ==
    /\ rel_pc = "build_and_validate:180"
    /\ \E rc \in ExitCodes :
        run_command("python -m twine check dist/*", TRUE, rc, "build_and_validate:203")
    /\ UNCHANGED <<rel_locals, rel_repo, rel_frame>>

\* build_and_validate, lines 203-204: the verification script is written
BuildWriteTemp ==
    /\ rel_pc = "build_and_validate:203"
    /\ temp_verify' = TRUE
    /\ Logged(<<"write", TEMP_VERIFY_FILE>>)
    /\ Goto("build_and_validate:207")
    /\ UNCHANGED <<rel_locals, forge_pyproject, forge_init, branch, dirty, tags,
                   commits, pushed, rel_frame>>

\* build_and_validate, lines 206-207: an error of the command is held while
\* the finally block runs
BuildVerify ==
    /\ rel_pc = "build_and_validate:207"
    /\ \E rc \in ExitCodes :
        /\ Logged(<<"run", "python temp_verify.py", rc>>)
        /\ pending' = IF rc # 0 THEN "ForgeReleaseError" ELSE ""
    /\ Goto("build_and_validate:209")
    /\ UNCHANGED <<current, new_version, rel_repo, rel_frame>>

\* the finally block as build_and_validate would be without it: the file is
\* removed only when the command succeeded
BuildFinally_only_on_success ==
    /\ rel_pc = "build_and_validate:209"
    /\ temp_verify' = (temp_verify /\ pending # "")
    /\ pending' = ""
    /\ IF pending # "" THEN Raise ELSE Return
    /\ UNCHANGED <<current, new_version, rel_log, forge_pyproject, forge_init,
                   branch, dirty, tags, commits, pushed, rel_frame>>

\* build_and_validate, lines 208-212: the file is removed, then the held error
\* is raised again or the function returns
BuildFinally ==
    /\ rel_pc = "build_and_validate:209"
    /\ temp_verify' = FALSE
    /\ pending' = ""
    /\ IF pending # "" THEN Raise ELSE Return
    /\ UNCHANGED <<current, new_version, rel_log, forge_pyproject, forge_init,
                   branch, dirty, tags, commits, pushed, rel_frame>>

\* prepare_release, line 277
PrepareAdd ==
    /\ rel_pc = "prepare_release:277"
    /\ \E rc \in ExitCodes :
        run_command("git add pyproject.toml src/forge/__init__.py", TRUE, rc,
                    "prepare_release:278")
    /\ UNCHANGED <<rel_locals, rel_repo, rel_frame>>

\* prepare_release, lines 278-283: the commit takes the two added files
PrepareCommit ==
    /\ rel_pc = "prepare_release:278"
    /\ \E rc \in ExitCodes :
        /\ run_command_return("git commit -m bump", TRUE, rc)
        /\ commits' = IF rc = 0
                      THEN Append(commits, "bump: version " \o current \o " -> "
                                           \o new_version)
                      ELSE commits
        /\ dirty' = IF rc = 0 THEN dirty \ {PYPROJECT_PATH, INIT_PATH} ELSE dirty
    /\ UNCHANGED <<rel_locals, forge_pyproject, forge_init, temp_verify, branch,
                   tags, pushed, rel_frame>>

\* get_current_branch, lines 138-141, and create_release, lines 291-293
CreateBranch ==
    /\ rel_pc = "create_release:291"
    /\ Logged(<<"run", "git branch --show-current", 0>>)
    /\ IF branch # "main" THEN Raise ELSE Goto("create_release:296")
    /\ UNCHANGED <<rel_locals, rel_repo, rel_frame>>

\* create_release as it would be without lines 296-297
CreateStatus_unchecked ==
    /\ rel_pc = "create_release:296"
    /\ Logged(<<"run", "git status --porcelain", 0>>)
    /\ Goto("create_release:301")
    /\ UNCHANGED <<rel_locals, rel_repo, rel_frame>>

\* check_git_status, lines 132-135, and create_release, lines 296-297: git
\* answers the query, its output lists the paths that differ from HEAD
CreateStatus ==
    /\ rel_pc = "create_release:296"
    /\ Logged(<<"run", "git status --porcelain", 0>>)
    /\ IF dirty # {} THEN Raise ELSE Goto("create_release:301")
    /\ UNCHANGED <<rel_locals, rel_repo, rel_frame>>

\* create_release, line 301
CreatePull ==
    /\ rel_pc = "create_release:301"
    /\ \E rc \in ExitCodes :
        run_command("git pull origin main", TRUE, rc, "create_release:304")
    /\ UNCHANGED <<rel_locals, rel_repo, rel_frame>>

\* create_release, lines 304-305
CreateVersion ==
    /\ rel_pc = "create_release:304"
    /\ LET got == get_current_version(forge_pyproject, forge_init)
       IN IF got[1] = "raise"
          THEN Raise /\ UNCHANGED current
          ELSE Goto("create_release:308") /\ current' = got[2]
    /\ UNCHANGED <<new_version, pending, rel_log, rel_repo, rel_frame>>

\* create_release, lines 308-310: `git tag -l` prints the tag when it exists
CreateTagList ==
    /\ rel_pc = "create_release:308"
    /\ Logged(<<"run", "git tag -l v" \o current, 0>>)
    /\ IF ("v" \o current) \in tags THEN Raise ELSE Goto("create_release:313")
    /\ UNCHANGED <<rel_locals, rel_repo, rel_frame>>

\* create_release, line 318
CreateTag ==
    /\ rel_pc = "create_release:318"
    /\ \E rc \in ExitCodes :
        /\ run_command("git tag v" \o current, TRUE, rc, "create_release:319")
        /\ tags' = IF rc = 0 THEN tags \cup {"v" \o current} ELSE tags
    /\ UNCHANGED <<rel_locals, forge_pyproject, forge_init, temp_verify, branch,
                   dirty, commits, pushed, rel_frame>>

\* create_release, lines 319-328
CreatePush ==
    /\ rel_pc = "create_release:319"
    /\ \E rc \in ExitCodes :
        /\ run_command_return("git push origin v" \o current, TRUE, rc)
        /\ pushed' = IF rc = 0 THEN pushed \cup {"v" \o current} ELSE pushed
    /\ UNCHANGED <<rel_locals, forge_pyproject, forge_init, temp_verify, branch,
                   dirty, tags, commits, rel_frame>>

\* full_release, lines 338-340
FullConfirm ==
    /\ rel_pc = "full_release:338"
    /\ \E answer \in BOOLEAN :
        /\ Logged(<<"ask", "full release", answer>>)
        /\ IF answer THEN Goto("full_release:343") ELSE Return
    /\ UNCHANGED <<rel_locals, rel_repo, rel_frame>>

\* full_release, lines 343-348: on main, prepare_release is called
FullBranch ==
    /\ rel_pc = "full_release:343"
    /\ Logged(<<"run", "git branch --show-current", 0>>)
    /\ IF branch # "main" THEN Raise
       ELSE Enter("prepare_release:250", "full_release:352")
    /\ UNCHANGED <<rel_locals, rel_repo, rel_frame>>

\* full_release, lines 352-355: after the push create_release is called, and
\* full_release returns when it returns
FullPush ==
    /\ rel_pc = "full_release:352"
    /\ \E rc \in ExitCodes :
        /\ run_command("git push origin main", TRUE, rc, "create_release:291")
        /\ pushed' = IF rc = 0 THEN pushed \cup {"main"} ELSE pushed
    /\ UNCHANGED <<rel_locals, forge_pyproject, forge_init, temp_verify, branch,
                   dirty, tags, commits, rel_frame>>

\* the repository the script is run in
RELEASED == "0.9.9"
NEXT_RELEASE == "1.0.0"
Versions == {RELEASED, NEXT_RELEASE}
FORGE_PYPROJECT_HEAD == "[project]\nname = \"flask-forge\"\n"
FORGE_PYPROJECT_TAIL == "requires-python = \">=3.10\"\n"
FORGE_INIT_HEAD == "\"\"\"Forge CLI\"\"\"\n"
ForgePyproject(v) == FORGE_PYPROJECT_HEAD \o "version = \"" \o v \o "\"\n" \o FORGE_PYPROJECT_TAIL
ForgeInit(v) == FORGE_INIT_HEAD \o "__version__ = \"" \o v \o "\"\n"
FORGE_PYPROJECT_NO_VERSION == FORGE_PYPROJECT_HEAD \o FORGE_PYPROJECT_TAIL
FORGE_INIT_NO_VERSION == FORGE_INIT_HEAD
ForgePyprojects == {ForgePyproject(v) : v \in Versions} \cup {FORGE_PYPROJECT_NO_VERSION}
ForgeInits == {ForgeInit(v) : v \in Versions} \cup {FORGE_INIT_NO_VERSION}
VersionArgs == VERSION_CHOICES \cup {"mayor"}
CommandLines ==
    {<<>>, <<"create-release">>}
    \cup {<<"prepare-release", k>> : k \in VersionArgs}
    \cup {<<"full-release", k>> : k \in VersionArgs}

InitRelease ==
    /\ NoInsertOnce
    /\ NoProject
    /\ NoBump
    /\ NoRender
    /\ argv \in CommandLines
    /\ rel_pc = "main:387"
    /\ rel_stack = <<>>
    /\ current = ""
    /\ new_version = ""
    /\ pending = ""
    /\ rel_log = <<>>
    /\ rel_exit = -1
    /\ forge_pyproject \in ForgePyprojects
    /\ forge_init \in ForgeInits
    /\ temp_verify = FALSE
    /\ branch \in {"main", "feature/docs"}
    /\ dirty \in {{}, {"README.md"}}
    /\ tags \in SUBSET {"v" \o v : v \in Versions}
    /\ commits = <<>>
    /\ pushed = {}

NextRelease ==
    \/ Main
    \/ PrepareValidate
    \/ PrepareVersion
    \/ PrepareConfirm
    \/ update_version_files
    \/ QualityRuff
    \/ QualityBlack
    \/ QualityPytest
    \/ QualitySync
    \/ BuildClean
    \/ BuildPackage
    \/ BuildTwine
    \/ BuildWriteTemp
    \/ BuildVerify
    \/ BuildFinally
    \/ PrepareAdd
    \/ PrepareCommit
    \/ CreateBranch
    \/ CreateStatus
    \/ CreatePull
    \/ CreateVersion
    \/ CreateTagList
    \/ CreateTag
    \/ CreatePush
    \/ FullConfirm
    \/ FullBranch
    \/ FullPush

SpecRelease == InitRelease /\ [][NextRelease]_vars

----------------------------------------------------------------------------
\* _render_template_dir (src/forge/cli.py:29-60).  A file's content is its
\* bytes, a sequence of numbers 0..255; a text is a sequence of code points; a
\* path is the sequence of its segments.

\* the printable ASCII characters: code points 32..95 and 97..126
ASCII_TO_UNDERSCORE ==
    " !\"#$%&'()*+,-./0123456789:;<=>?@ABCDEFGHIJKLMNOPQRSTUVWXYZ[\\]^_"
ASCII_FROM_A == "abcdefghijklmnopqrstuvwxyz{|}~"

\* ord(c) for one of these characters
ord(c) ==
    IF str_in(c, ASCII_FROM_A) THEN 97 + str_find(ASCII_FROM_A, c, 0)
    ELSE 32 + str_find(ASCII_TO_UNDERSCORE, c, 0)

\* the code points of an ASCII str
code_points(str) == [i \in 1..Len(str) |-> ord(Char(str, i - 1))]

\* the number of bytes of the UTF-8 sequence a byte starts, 0 for a byte that
\* starts none
utf8_length(lead) ==
    IF lead < 128 THEN 1
    ELSE IF lead \in 194..223 THEN 2
    ELSE IF lead \in 224..239 THEN 3
    ELSE IF lead \in 240..244 THEN 4
    ELSE 0

\* the bytes i..i+n-1 of b are one UTF-8 sequence
utf8_valid_at(b, i, n) ==
    /\ n > 0
    /\ i + n - 1 <= Len(b)
    /\ \A k \in 1..(n - 1) : b[i + k] \in 128..191
    /\ n = 3 => ~(b[i] = 224 /\ b[i + 1] < 160) /\ ~(b[i] = 237 /\ b[i + 1] > 159)
    /\ n = 4 => ~(b[i] = 240 /\ b[i + 1] < 144) /\ ~(b[i] = 244 /\ b[i + 1] > 143)

\* the code point of the UTF-8 sequence of n bytes at i
utf8_code_point(b, i, n) ==
    CASE n = 1 -> b[i]
      [] n = 2 -> (b[i] - 192) * 64 + (b[i + 1] - 128)
      [] n = 3 -> (b[i] - 224) * 4096 + (b[i + 1] - 128) * 64 + (b[i + 2] - 128)
      [] n = 4 -> (b[i] - 240) * 262144 + (b[i + 1] - 128) * 4096
                    + (b[i + 2] - 128) * 64 + (b[i + 3] - 128)

RECURSIVE utf8_decode_lenient(_, _, _)
\* bytes.decode("utf-8", errors="ignore"): a byte that is no part of a sequence
\* is dropped
utf8_decode_lenient(b, i, acc) ==
    IF i > Len(b) THEN <<TRUE, acc>>
    ELSE IF ~utf8_valid_at(b, i, utf8_length(b[i]))
    THEN utf8_decode_lenient(b, i + 1, acc)
    ELSE utf8_decode_lenient(b, i + utf8_length(b[i]),
                             Append(acc, utf8_code_point(b, i, utf8_length(b[i]))))

RECURSIVE utf8_decode(_, _, _)
\* bytes.decode("utf-8") from byte i on: <<TRUE, the code points>>, or
\* <<FALSE, <<>>>> for UnicodeDecodeError
utf8_decode(b, i, acc) ==
    IF i > Len(b) THEN <<TRUE, acc>>
    ELSE IF ~utf8_valid_at(b, i, utf8_length(b[i])) THEN <<FALSE, <<>>>>
    ELSE utf8_decode(b, i + utf8_length(b[i]),
                     Append(acc, utf8_code_point(b, i, utf8_length(b[i]))))

RECURSIVE universal_newlines(_)
\* text mode, newline=None, on reading: "\r\n" and "\r" become "\n"
universal_newlines(txt) ==
    IF txt = <<>> THEN <<>>
    ELSE IF Head(txt) = 13 /\ Len(txt) > 1 /\ txt[2] = 10
    THEN <<10>> \o universal_newlines(Tail(Tail(txt)))
    ELSE IF Head(txt) = 13 THEN <<10>> \o universal_newlines(Tail(txt))
    ELSE <<Head(txt)>> \o universal_newlines(Tail(txt))

\* line 56, Path.read_text(encoding="utf-8"): <<TRUE, the text>> or <<FALSE, <<>>>>
read_text(b) ==
    LET decoded == utf8_decode(b, 1, <<>>)
    IN  IF decoded[1] THEN <<TRUE, universal_newlines(decoded[2])>> ELSE decoded

\* the UTF-8 bytes of one code point
utf8_bytes(cp) ==
    IF cp < 128 THEN <<cp>>
    ELSE IF cp < 2048 THEN <<192 + (cp \div 64), 128 + (cp % 64)>>
    ELSE IF cp < 65536
    THEN <<224 + (cp \div 4096), 128 + ((cp \div 64) % 64), 128 + (cp % 64)>>
    ELSE <<240 + (cp \div 262144), 128 + ((cp \div 4096) % 64),
           128 + ((cp \div 64) % 64), 128 + (cp % 64)>>

RECURSIVE utf8_encode(_)
\* line 58, Path.write_text(rendered, encoding="utf-8"): the bytes written
utf8_encode(txt) ==
    IF txt = <<>> THEN <<>> ELSE utf8_bytes(Head(txt)) \o utf8_encode(Tail(txt))

\* lines 89-90: the context of `forge new shop`
PACKAGE_NAME_EXPR == "{{package_name}}"
PACKAGE_NAME == "shop"

\* env.from_string(seg).render(**context) for a path segment: the expression
\* is replaced by the value of package_name
render_str(seg) == str_replace(seg, PACKAGE_NAME_EXPR, PACKAGE_NAME)

RECURSIVE render(_)
\* env.from_string(txt).render(**context) for a text
render(txt) ==
    IF txt = <<>> THEN <<>>
    ELSE IF /\ Len(txt) >= Len(PACKAGE_NAME_EXPR)
            /\ SubSeq(txt, 1, Len(PACKAGE_NAME_EXPR)) = code_points(PACKAGE_NAME_EXPR)
    THEN code_points(PACKAGE_NAME)
            \o render(SubSeq(txt, Len(PACKAGE_NAME_EXPR) + 1, Len(txt)))
    ELSE <<Head(txt)>> \o render(Tail(txt))

\* lines 29-32
render_path(rel) == [i \in DOMAIN rel |-> render_str(rel[i])]

\* mkdir(parents=True, exist_ok=True): the directory and those above it
mkdir(dirs, path) == dirs \cup {SubSeq(path, 1, n) : n \in 0..Len(path)}

\* lines 39-46: os.walk yields a directory, which is created under out_dir
MakeDir ==
    /\ walk # <<>>
    /\ Head(walk)[1] = "dir"
    /\ out_dirs' = mkdir(out_dirs, render_path(Head(walk)[2]))
    /\ walk' = Tail(walk)
    /\ UNCHANGED <<outputs, insert_vars, project_vars, bump_vars, release_vars>>

\* lines 48-58: a file whose bytes decode is rendered and written
RenderText ==
    /\ walk # <<>>
    /\ Head(walk)[1] = "file"
    /\ read_text(Head(walk)[4])[1]
    /\ LET rendered_rel == render_path(Head(walk)[2])
           rendered_name == render_str(Head(walk)[3])
       IN  /\ out_dirs' = mkdir(out_dirs, rendered_rel)
           /\ outputs' = write_text(outputs, Append(rendered_rel, rendered_name),
                                    utf8_encode(render(read_text(Head(walk)[4])[2])))
    /\ walk' = Tail(walk)
    /\ UNCHANGED <<insert_vars, project_vars, bump_vars, release_vars>>

\* lines 48-56 and 59-60: read_text raises UnicodeDecodeError, the file is
\* copied
CopyBinary ==
    /\ walk # <<>>
    /\ Head(walk)[1] = "file"
    /\ ~read_text(Head(walk)[4])[1]
    /\ LET rendered_rel == render_path(Head(walk)[2])
           rendered_name == render_str(Head(walk)[3])
       IN  /\ out_dirs' = mkdir(out_dirs, rendered_rel)
           /\ outputs' = write_text(outputs, Append(rendered_rel, rendered_name),
                                    Head(walk)[4])
    /\ walk' = Tail(walk)
    /\ UNCHANGED <<insert_vars, project_vars, bump_vars, release_vars>>

\* the template trees: file contents are made of up to MaxChunks pieces
TEXT_CHUNK == code_points("a")
EXPR_CHUNK == code_points(PACKAGE_NAME_EXPR)
E_ACUTE_CHUNK == <<195, 169>>
CRLF_CHUNK == <<13, 10>>
INVALID_CHUNK == <<255>>
LEAD_CHUNK == <<195>>
TextChunks == {TEXT_CHUNK, EXPR_CHUNK, E_ACUTE_CHUNK, CRLF_CHUNK}
Chunks == TextChunks \cup {INVALID_CHUNK, LEAD_CHUNK}

RECURSIVE Flatten(_)
Flatten(pieces) == IF pieces = <<>> THEN <<>> ELSE Head(pieces) \o Flatten(Tail(pieces))

Contents == {Flatten(pieces) : pieces \in SeqsUpTo(Chunks, MaxChunks)}
SecondContents == {Flatten(<<TEXT_CHUNK, INVALID_CHUNK>>), EXPR_CHUNK}
PACKAGE_DIR == <<"src", PACKAGE_NAME_EXPR>>

TemplateTrees ==
    {<<<<"dir", <<>>>>, <<"file", <<>>, "app.py", c>>>> : c \in Contents}
    \cup {<<<<"dir", <<>>>>, <<"dir", <<"src">>>>, <<"dir", PACKAGE_DIR>>,
            <<"file", PACKAGE_DIR, PACKAGE_NAME_EXPR \o ".py", c>>,
            <<"file", PACKAGE_DIR, "logo.png", d>>>> :
          c \in Contents, d \in SecondContents}
    \cup {<<<<"dir", <<>>>>, <<"file", <<>>, "shop.py", c>>,
            <<"file", <<>>, PACKAGE_NAME_EXPR \o ".py", d>>>> :
          c \in Contents, d \in SecondContents}

InitRender ==
    /\ NoInsertOnce
    /\ NoProject
    /\ NoBump
    /\ NoRelease
    /\ walk \in TemplateTrees
    /\ outputs = {}
    /\ out_dirs = {<<>>}

NextRender ==
    \/ MakeDir
    \/ RenderText
    \/ CopyBinary

SpecRender == InitRender /\ [][NextRender]_vars

----------------------------------------------------------------------------
(* Claims about insert_once, checked under SpecInsertOnce.                 *)

\* the offsets at which s occurs in t
Occurrences(t, s) == {i \in 0..(Len(t) - Len(s)) : StartsAt(t, i, s)}

\* t with every occurrence of piece deleted
Erase(t, piece) == str_replace(t, piece, "")

\* the lines of a Document (str.splitlines for "\n")
DocLines(t) ==
    LET p == str_split(t, NL)
    IN  IF p[Len(p)] = "" THEN SubSeq(p, 1, Len(p) - 1) ELSE p

Present == str_in(needle, text)

Marked == str_in(anchor, text)

PatternOffsets ==
    IF fallback_pattern = None THEN {} ELSE Occurrences(text, fallback_pattern[1])

Matched == truthy(fallback_pattern) /\ PatternOffsets # {}

\* C1: the text insert_once returns contains the payload exactly once,
\* however often the anchor occurs in the Document and whichever step
\* inserts it (stated for the Documents that do not hold the payload yet,
\* where it is insert_once that puts it in).
C1_PayloadExactlyOnce ==
    (pc = "once" /\ ~Present) => Cardinality(Occurrences(result, needle)) = 1

\* C2: insert_once is idempotent: applying the same Insertion Request to the
\* Document the first call returned gives that Document back.
C2_Idempotent == [][pc = "once" => result' = result]_vars

C2_Witness == pc = "twice" /\ result # text /\ Marked

\* C3: with the payload absent and the anchor present, the payload is put on
\* the line before the anchor when before is True and on the line after it
\* when before is False; ["a", "# [marker]", "b"] with payload "x" and
\* placement before gives ["a", "x", "# [marker]", "b"].
C3_MarkerPlacement ==
    (pc = "once" /\ ~Present /\ Marked) =>
        /\ before => str_in(needle \o NL \o anchor, result)
        /\ ~before => str_in(anchor \o NL \o needle, result)
        /\ (text = "a\n# [marker]\nb" /\ needle = "x" /\ before)
           => result = "a\nx\n# [marker]\nb"

\* C4: a Document that already contains the payload is returned unchanged,
\* whether or not the anchor or the fallback pattern would match.
C4_DuplicateUnchanged == (pc = "once" /\ Present) => result = text

C4_Witness == pc = "once" /\ Present /\ Marked /\ Matched /\ result = text

\* C5: the steps apply in priority order, first match wins: the marker step
\* whenever the anchor occurs (and the payload does not), also when the
\* fallback pattern matches; the regex step only with payload and anchor
\* absent; the append step only with payload and anchor absent and the
\* pattern missing or not matching.
C5_PriorityOrder ==
    pc = "once" =>
        /\ (~Present /\ Marked) =>
              /\ step = "marker"
              /\ \/ str_in(needle \o NL \o anchor, result)
                 \/ str_in(anchor \o NL \o needle, result)
        /\ step = "marker" => (~Present /\ Marked)
        /\ step = "regex" <=> (~Present /\ ~Marked /\ Matched)
        /\ step = "append" <=> (~Present /\ ~Marked /\ ~Matched)
        /\ step = "append" => str_endswith(result, NL \o needle \o NL)

C5_Witness == pc = "once" /\ step = "marker" /\ Matched

\* C6: in the regex step the first match in document order is used: the
\* payload goes before the start of its span when before is True and after
\* its end when before is False, and the rest of the Document, later
\* matches included, is as it was.
C6_RegexFirstMatch ==
    (pc = "once" /\ ~Present /\ ~Marked /\ Matched) =>
        LET start == Min(PatternOffsets)
            end == start + Len(fallback_pattern[1])
        IN  result =
                IF before
                THEN Slice(text, 0, start) \o needle \o NL
                        \o Slice(text, start, Len(text))
                ELSE Slice(text, 0, end) \o NL \o needle
                        \o Slice(text, end, Len(text))

C6_Witness ==
    /\ pc = "once"
    /\ step = "regex"
    /\ Cardinality(PatternOffsets) >= 2
    /\ Cardinality(Occurrences(result, fallback_pattern[1])) >= 2

\* C7: a missing insertion point is no failure: with payload and anchor
\* absent and the pattern None or not matching, insert_once returns, and the
\* result ends with the payload on a line of its own, the last line.
C7_AppendNeverFails ==
    (pc = "once" /\ ~Present /\ ~Marked /\ ~Matched) =>
        /\ step = "append"
        /\ str_endswith(result, NL \o needle \o NL)
        /\ LET ls == DocLines(result) IN ls[Len(ls)] = needle

C7_Witness == pc = "once" /\ text = "" /\ step = "append"

\* C8: in the marker, regex and append steps the lines of the result
\* are the lines of the original Document with the payload line put in
\* between: same line count, order and content before and after it,
\* trailing blank lines of the original included.
C8_LinesPreserved ==
    (pc = "once" /\ step \in {"marker", "regex", "append"}) =>
        LET ls == DocLines(text)
        IN  \E k \in 0..Len(ls) :
                DocLines(result) =
                    SubSeq(ls, 1, k) \o <<needle>> \o SubSeq(ls, k + 1, Len(ls))

\* C8 as amended: in the marker and regex steps, deleting the inserted payload
\* with its one added line break gives the original text back, character for
\* character; in the append step the result is the original without its
\* trailing whitespace, then a line break, the payload and a line break.
C8_ContentPreserved ==
    (pc = "once" /\ ~Present) =>
        /\ Marked =>
              Erase(result, IF before THEN NL \o needle ELSE needle \o NL) = text
        /\ (~Marked /\ Matched) =>
              Erase(result, IF before THEN needle \o NL ELSE NL \o needle) = text
        /\ (~Marked /\ ~Matched) =>
              /\ Erase(result, NL \o needle \o NL) = str_rstrip(text)
              /\ \E n \in 0..Len(text) :
                    /\ Slice(text, 0, n) = Erase(result, NL \o needle \o NL)
                    /\ \A k \in n..(Len(text) - 1) : Char(text, k) \in WHITESPACE

C8_Witness ==
    /\ pc = "once"
    /\ step = "append"
    /\ str_endswith(text, "\n\n")
    /\ str_rstrip(text) # ""

----------------------------------------------------------------------------
(* Claims about the forge commands, checked under Spec.                    *)

\* each of the three markers occurs exactly once in t
HasMarkers(t) ==
    /\ Cardinality(Occurrences(t, AUTO_IMPORTS_ANCHOR)) = 1
    /\ Cardinality(Occurrences(t, AUTO_REGISTER_ANCHOR)) = 1
    /\ Cardinality(Occurrences(t, AUTO_INIT_ANCHOR)) = 1

\* the branches of a patch that are not a fallback: the patch goes to the
\* marker, or its payload is there already
MarkerBranches == {"marker", "duplicate", "exists"}

\* The first half of C9 on its own: a forge run on an api.py that holds each
\* marker exactly once leaves each marker in it exactly once.
C9_MarkersOccurOnce == [][HasMarkers(api_py) => HasMarkers(api_py')]_vars

\* C9: a forge run (generate resource or plugin openapi, after any runs
\* before it) on an api.py that holds each marker exactly once leaves each
\* marker in it exactly once, and every patch of the run takes the marker
\* branch, none a fallback.
C9_MarkersSurvive ==
    [][HasMarkers(api_py) =>
          /\ HasMarkers(api_py')
          /\ \A k \in DOMAIN branches' : branches'[k] \in MarkerBranches]_vars

\* C10: a successful `generate resource` run that repeats the command line of
\* the run just before it leaves api.py and di_wiring.py as they are.
C10_ResourceIdempotent ==
    [][(/\ main_py
        /\ last_cmd # <<>>
        /\ last_cmd[1] = "generate"
        /\ history' = Append(history, last_cmd))
          => (api_py' = api_py /\ di_wiring_py' = di_wiring_py)]_vars

\* the second of two equal generate runs has happened, in a project whose
\* api.py had no markers: the first run went through the regex fallbacks
C10_Witness ==
    /\ main_py
    /\ Len(history) = 2
    /\ history[1] = history[2]
    /\ history[2] = <<"generate", "resource", "back-office", "order">>
    /\ exit_code = 0
    /\ branches = <<"duplicate", "duplicate", "duplicate">>
    /\ ~HasMarkers(api_py)
    /\ str_in(register_line("order"), api_py)
    /\ str_in("return api", api_py)
    /\ Cardinality(Occurrences(di_wiring_py, call_line("order"))) = 1

----------------------------------------------------------------------------
(* Claims about bump_version, checked under SpecBump.                      *)

\* the version triples whose string bump_version was called with
TriplesOf(version) ==
    {v \in VersionNumbers \X VersionNumbers \X VersionNumbers :
        format_version(v[1], v[2], v[3]) = version}

\* C11: for a version triple (major, minor, patch), bump_version returns
\* (major, minor, patch + 1) for 'patch', (major, minor + 1, 0) for 'minor'
\* and (major + 1, 0, 0) for 'major'; (1, 2, 3) bumped 'major' gives
\* (2, 0, 0); any other kind raises ForgeReleaseError and returns nothing.
C11_BumpVersion ==
    bump_pc = "once" =>
        /\ \A v \in TriplesOf(current_version) :
              /\ version_type = "patch" =>
                    bumped = <<"return", format_version(v[1], v[2], v[3] + 1)>>
              /\ version_type = "minor" =>
                    bumped = <<"return", format_version(v[1], v[2] + 1, 0)>>
              /\ version_type = "major" =>
                    bumped = <<"return", format_version(v[1] + 1, 0, 0)>>
        /\ (current_version = "1.2.3" /\ version_type = "major") =>
              bumped = <<"return", "2.0.0">>
        /\ (current_version = "9.9.9" /\ version_type = "minor") =>
              bumped = <<"return", "9.10.0">>
        /\ version_type \notin {"patch", "minor", "major"} =>
              bumped = <<"raise", "ForgeReleaseError">>

\* a minor bump has carried 9 to 10 and reset a patch that was not 0
C11_Witness ==
    /\ bump_pc = "once"
    /\ current_version = "1.9.3"
    /\ version_type = "minor"
    /\ bumped = <<"return", "1.10.0">>

\* C12: two patch bumps in a row add 2 to patch and leave major and minor.
C12_PatchTwice ==
    (bump_pc = "twice" /\ version_type = "patch") =>
        /\ \A v \in TriplesOf(current_version) :
              bumped = <<"return", format_version(v[1], v[2], v[3] + 2)>>
        /\ current_version = "1.2.9" => bumped = <<"return", "1.2.11">>

C12_Witness ==
    /\ bump_pc = "twice"
    /\ version_type = "patch"
    /\ current_version = "0.10.8"
    /\ bumped = <<"return", "0.10.10">>

----------------------------------------------------------------------------
\* Claims about the release script (SpecRelease)

\* both version files hold the version string v
Agreeing(v) == forge_pyproject = ForgePyproject(v) /\ forge_init = ForgeInit(v)

\* the version strings the two files can agree on in a run
AgreedVersions == {v \in Versions \cup {new_version} : Agreeing(v)}

\* a log entry that records a change: a file written, a commit, a tag, a push
IsEffect(entry) ==
    \/ entry[1] = "write"
    \/ /\ entry[1] = "run"
       /\ \/ StartsAt(entry[2], 0, "git commit")
          \/ StartsAt(entry[2], 0, "git tag v")
          \/ StartsAt(entry[2], 0, "git push")

Effects == {i \in 1..Len(rel_log) : IsEffect(rel_log[i])}

\* the statements of the script up to and including the calls of
\* get_current_version
UpToVersion ==
    {"main:387", "full_release:338", "full_release:343", "prepare_release:250",
     "prepare_release:254", "create_release:291", "create_release:296",
     "create_release:301", "create_release:304", "exit"}

\* C13: get_current_version returns a version exactly when both files hold a
\* version string and the two are equal, and raises ForgeReleaseError
\* otherwise; a run of prepare-release or create-release in a repository whose
\* files do not agree never gets past the call, changes nothing (no file
\* written, no commit, no tag, no push) and ends with a failure status.
C13_VersionsMustAgree ==
    LET got == get_current_version(forge_pyproject, forge_init)
    IN  /\ \A v \in AgreedVersions : got = <<"return", v>>
        /\ AgreedVersions = {} =>
            /\ got = <<"raise", "ForgeReleaseError">>
            /\ rel_pc \in UpToVersion
            /\ Effects = {}
            /\ commits = <<>>
            /\ pushed = {}
            /\ (rel_pc = "exit" /\ argv # <<>>
                  /\ argv[1] \in {"prepare-release", "create-release"})
               => rel_exit # 0

\* create-release was run on a clean main whose two files hold different
\* version strings: it got as far as the call and ended
C13_Witness ==
    /\ argv = <<"create-release">>
    /\ forge_pyproject = ForgePyproject(RELEASED)
    /\ forge_init = ForgeInit(NEXT_RELEASE)
    /\ rel_pc = "exit"
    /\ Len(rel_log) = 3
    /\ rel_log[3] = <<"run", "git pull origin main", 0>>

RUFF == "ruff check ."
BLACK == "black --check ."
PYTEST == "pytest -q"
VERSION_SYNC == "python scripts/check_version_sync.py"

\* the positions of the log where the command cmd was run
RunsOf(cmd) ==
    {i \in 1..Len(rel_log) : rel_log[i][1] = "run" /\ rel_log[i][2] = cmd}

\* the command run at position i of the log ended with status 0
Passed(i, cmd) == i \in RunsOf(cmd) /\ rel_log[i][3] = 0

\* the log ends at position i and the script has ended with status 1
StoppedAt(i) == i = Len(rel_log) /\ rel_pc = "exit" /\ rel_exit = 1

\* C14: in run_quality_checks black runs directly after a ruff that passed,
\* pytest directly after a black that passed, the version-sync check directly
\* after pytest whatever pytest's exit status was; a non-zero exit of ruff,
\* black or the version-sync check is the last thing the script does (no later
\* check, build, commit, tag or push) and the script ends with an error, while
\* after pytest, passed or failed, the version-sync check is the next command.
C14_QualityChecksOrder ==
    /\ \A i \in RunsOf(BLACK) : Passed(i - 1, RUFF)
    /\ \A i \in RunsOf(PYTEST) : Passed(i - 1, BLACK)
    /\ \A i \in RunsOf(VERSION_SYNC) : (i - 1) \in RunsOf(PYTEST)
    /\ \A i \in RunsOf(RUFF) \cup RunsOf(BLACK) \cup RunsOf(VERSION_SYNC) :
        rel_log[i][3] # 0 => StoppedAt(i)
    /\ \A i \in RunsOf(RUFF) :
        Passed(i, RUFF) =>
            IF i = Len(rel_log) THEN rel_pc = "run_quality_checks:154"
            ELSE (i + 1) \in RunsOf(BLACK)
    /\ \A i \in RunsOf(BLACK) :
        Passed(i, BLACK) =>
            IF i = Len(rel_log) THEN rel_pc = "run_quality_checks:158"
            ELSE (i + 1) \in RunsOf(PYTEST)
    /\ \A i \in RunsOf(PYTEST) :
        IF i = Len(rel_log) THEN rel_pc = "run_quality_checks:162"
        ELSE (i + 1) \in RunsOf(VERSION_SYNC)

\* pytest failed, the version-sync check ran and passed, and the calling
\* prepare_release went on to commit
C14_Witness ==
    /\ commits # <<>>
    /\ \E i \in RunsOf(PYTEST) : rel_log[i][3] # 0 /\ Passed(i + 1, VERSION_SYNC)

\* the statements of build_and_validate between writing temp_verify.py and
\* the end of the finally block
Verifying == rel_pc \in {"build_and_validate:207", "build_and_validate:209"}

\* C17: temp_verify.py, absent when the script starts, exists only while
\* build_and_validate is between writing it and the end of its finally block:
\* it is absent whenever build_and_validate has not written it yet, has
\* returned, or has raised because the build, the twine check or the
\* verification command failed.
C17_TempFileReleased == temp_verify => Verifying

\* the verification command failed: build_and_validate raised and the script
\* ended, after the file had been written
C17_Witness ==
    /\ rel_pc = "exit"
    /\ rel_exit = 1
    /\ Len(rel_log) > 1
    /\ rel_log[Len(rel_log)] = <<"run", "python temp_verify.py", 1>>
    /\ rel_log[Len(rel_log) - 1] = <<"write", TEMP_VERIFY_FILE>>
    /\ ~temp_verify

----------------------------------------------------------------------------
\* Claims about exit codes

\* C15: a run that succeeds exits 0; a failed package detection exits 2 in
\* every command that detects the package (run dev, generate resource, plugin
\* openapi); check_version_sync exits 1, not 2, for files that lack a version
\* or disagree, 0 for files that agree.
C15_ExitCodes ==
    /\ (history # <<>> /\ main_py) => exit_code = 0
    /\ (history # <<>> /\ ~main_py) => exit_code = 2
    /\ \A p \in ForgePyprojects, i \in ForgeInits :
        check_version_sync(p, i) =
            IF \E v \in Versions : p = ForgePyproject(v) /\ i = ForgeInit(v)
            THEN 0 ELSE 1

----------------------------------------------------------------------------
\* Claims about `forge plugin openapi`, checked under Spec.

DEPENDENCIES_HEAD == "dependencies = ["

RECURSIVE array_scan(_, _, _, _)
\* the entries of a TOML array of strings read from offset i, where `ready`
\* says that an entry may come next (the array just opened, or a comma was
\* read): <<whether the array is well-formed, the entries read>>
array_scan(t, i, ready, acc) ==
    LET j == ws_end(t, i)
    IN  IF j >= Len(t) THEN <<FALSE, acc>>
        ELSE IF Char(t, j) = "]" THEN <<TRUE, acc>>
        ELSE IF Char(t, j) = "," /\ ~ready THEN array_scan(t, j + 1, TRUE, acc)
        ELSE IF Char(t, j) = "\"" /\ ready /\ quoted_end(t, j + 1) < Len(t)
        THEN array_scan(t, quoted_end(t, j + 1) + 1, FALSE,
                        Append(acc, Slice(t, j + 1, quoted_end(t, j + 1))))
        ELSE <<FALSE, acc>>

\* content has a dependencies array
HasArray(content) == str_in(DEPENDENCIES_HEAD, content)

\* the dependencies array of content, as array_scan reads it
dependencies_of(content) ==
    array_scan(content, str_find(content, DEPENDENCIES_HEAD, 0) + Len(DEPENDENCIES_HEAD),
               TRUE, <<>>)

\* the array entry names the package dep
Names(entry, dep) ==
    /\ StartsAt(entry, 0, dep)
    /\ Len(entry) = Len(dep)
       \/ Char(entry, Len(dep)) \in {">", "<", "=", "~", "!", " "}

\* the step is a run of plugin openapi inside a project
PluginRuns == main_py /\ history' = Append(history, <<"plugin", "openapi">>)

\* C18: a run of plugin openapi on a pyproject.toml with a well-formed
\* dependencies array (on one line, empty or not, or over several lines)
\* leaves the array well-formed (adjacent entries separated by a comma), keeps
\* the entries it had in their order, and leaves each of flask-smorest and
\* marshmallow in it exactly once.
C18_ArrayWellFormed ==
    [][(/\ PluginRuns
        /\ HasArray(pyproject_toml)
        /\ dependencies_of(pyproject_toml)[1])
          => LET old == dependencies_of(pyproject_toml)[2]
                 new == dependencies_of(pyproject_toml')
             IN  /\ new[1]
                 /\ SelectSeq(new[2], LAMBDA e : \E k \in DOMAIN old : old[k] = e) = old
                 /\ \A d \in DOMAIN required_deps :
                     Cardinality({k \in DOMAIN new[2] : Names(new[2][k], required_deps[d])}) = 1
       ]_vars

\* C19: _update_pyproject_dependencies returns True exactly when the content
\* of pyproject.toml changed; it returns False when both packages are
\* declared; when it returns True the new content declares both packages.
C19_ReturnsWhetherChanged ==
    [][PluginRuns
          => /\ returned'[1] <=> (pyproject_toml' # pyproject_toml)
             /\ (\A d \in DOMAIN required_deps :
                     dep_declared(pyproject_toml, required_deps[d]))
                => ~returned'[1]
             /\ returned'[1]
                => \A d \in DOMAIN required_deps :
                      dep_declared(pyproject_toml', required_deps[d])
       ]_vars

\* C20: a run of plugin openapi directly after a run of plugin openapi leaves
\* pyproject.toml, api.py and ext/openapi.py as they are and both updates
\* return False; in api.py the import line and the call each occur at most
\* once, after any number of runs.
C20_PluginIdempotent ==
    [][PluginRuns
          => /\ Cardinality(Occurrences(api_py', OPENAPI_IMPORT)) <= 1
             /\ Cardinality(Occurrences(api_py', API_INIT_CALL)) <= 1
             /\ last_cmd = <<"plugin", "openapi">>
                => /\ pyproject_toml' = pyproject_toml
                   /\ api_py' = api_py
                   /\ openapi_py' = openapi_py
                   /\ returned' = <<FALSE, FALSE>>
       ]_vars

----------------------------------------------------------------------------
\* Claims about _render_template_dir, checked under SpecRender.

\* the pieces a content of a template tree is made of
PiecesOf(content) == {pieces \in SeqsUpTo(Chunks, MaxChunks) : Flatten(pieces) = content}

\* what a piece of text looks like in the output: the expression gives
\* "shop", a line end gives "\n", other text stays
RenderedChunk(piece) ==
    IF piece = EXPR_CHUNK THEN <<115, 104, 111, 112>>
    ELSE IF piece = CRLF_CHUNK THEN <<10>>
    ELSE piece

\* the output a content must give: pieces that are all text are rendered one
\* by one; a content with a piece that is not UTF-8 stays as it is
ExpectedOutput(pieces) ==
    IF \A k \in DOMAIN pieces : pieces[k] \in TextChunks
    THEN Flatten([k \in DOMAIN pieces |-> RenderedChunk(pieces[k])])
    ELSE Flatten(pieces)

\* the output path a template file must give
ExpectedPath(rel, name) ==
    (IF rel = PACKAGE_DIR THEN <<"src", "shop">> ELSE rel)
        \o <<IF name = PACKAGE_NAME_EXPR \o ".py" THEN "shop.py" ELSE name>>

\* C16: each template file the walk yields gives exactly one output file, at
\* the rendered path: its bytes unchanged when they do not decode as UTF-8,
\* its text rendered against the context when they do; no other output file
\* appears, changes or disappears in that step.
C16_RenderOrCopy ==
    [][(walk # <<>> /\ Head(walk)[1] = "file" /\ walk' = Tail(walk))
          => LET path == ExpectedPath(Head(walk)[2], Head(walk)[3])
             IN  /\ \E pieces \in PiecesOf(Head(walk)[4]) :
                     {o \in outputs' : o[1] = path} = {<<path, ExpectedOutput(pieces)>>}
                 /\ {o \in outputs' : o[1] # path} = {o \in outputs : o[1] # path}
       ]_vars

\* a tree was rendered: logo.png, not UTF-8, was copied, and the text of
\* {{package_name}}.py was rendered to shop.py
C16_Witness ==
    /\ walk = <<>>
    /\ <<<<"src", "shop", "logo.png">>, <<97, 255>>>> \in outputs
    /\ <<<<"src", "shop", "shop.py">>, <<115, 104, 111, 112, 10>>>> \in outputs

----------------------------------------------------------------------------
\* Claims about create_release, prepare_release and full_release
\* (SpecRelease)

\* the log entries of a create_release that got as far as `git tag`, for the
\* version v, in the order of the source: with every check passed (pytest
\* and the removal of dist/ may have failed)
CreateReleaseLog(v, pytest_rc, rm_rc) ==
    <<<<"run", "git branch --show-current", 0>>,
      <<"run", "git status --porcelain", 0>>,
      <<"run", "git pull origin main", 0>>,
      <<"run", "git tag -l v" \o v, 0>>,
      <<"run", RUFF, 0>>,
      <<"run", BLACK, 0>>,
      <<"run", PYTEST, pytest_rc>>,
      <<"run", VERSION_SYNC, 0>>,
      <<"run", "rm -rf dist/", rm_rc>>,
      <<"run", "python -m build", 0>>,
      <<"run", "python -m twine check dist/*", 0>>,
      <<"write", TEMP_VERIFY_FILE>>,
      <<"run", "python temp_verify.py", 0>>>>

\* the log ends with the entries of a create_release whose checks all passed
ChecksPassed(v) ==
    \E pytest_rc \in ExitCodes, rm_rc \in ExitCodes :
        LET expected == CreateReleaseLog(v, pytest_rc, rm_rc)
        IN  /\ Len(rel_log) >= Len(expected)
            /\ SubSeq(rel_log, Len(rel_log) - Len(expected) + 1, Len(rel_log)) = expected

InPrepare ==
    \/ StartsAt(rel_pc, 0, "prepare_release")
    \/ rel_stack # <<>> /\ StartsAt(Head(rel_stack), 0, "prepare_release")

\* the step ends prepare_release: it returns to its caller or raises
PrepareEnds == InPrepare /\ rel_pc' \in {"exit", "full_release:352"}

\* the version a bump of kind k must give for each version of the model
ExpectedBump(v, k) ==
    IF v = RELEASED
    THEN (CASE k = "patch" -> "0.9.10" [] k = "minor" -> "0.10.0" [] k = "major" -> "1.0.0")
    ELSE (CASE k = "patch" -> "1.0.1" [] k = "minor" -> "1.1.0" [] k = "major" -> "2.0.0")

\* the log entries of a prepare_release from update_version_files to
\* `git add`, with every check passed
PrepareReleaseLog(pytest_rc, rm_rc) ==
    <<<<"write", PYPROJECT_PATH>>,
      <<"write", INIT_PATH>>,
      <<"run", RUFF, 0>>,
      <<"run", BLACK, 0>>,
      <<"run", PYTEST, pytest_rc>>,
      <<"run", VERSION_SYNC, 0>>,
      <<"run", "rm -rf dist/", rm_rc>>,
      <<"run", "python -m build", 0>>,
      <<"run", "python -m twine check dist/*", 0>>,
      <<"write", TEMP_VERIFY_FILE>>,
      <<"run", "python temp_verify.py", 0>>,
      <<"run", "git add pyproject.toml src/forge/__init__.py", 0>>>>

\* C22: a step that commits finds both files holding the bumped version,
\* right after they were written and quality checks and build_and_validate
\* passed; the step in which the user declines the confirmation ends
\* prepare_release with no file written and no command run by it; and when
\* prepare_release ends after it got a current version (by return, or by an
\* error of a check or build step), both files hold the same version string.
C22_CommitAfterChecks ==
    [][/\ commits' # commits
          => /\ current \in Versions
             /\ new_version = ExpectedBump(current, argv[2])
             /\ Agreeing(new_version)
             /\ \E pytest_rc \in ExitCodes, rm_rc \in ExitCodes :
                    LET expected == PrepareReleaseLog(pytest_rc, rm_rc)
                    IN  /\ Len(rel_log) >= Len(expected)
                        /\ SubSeq(rel_log, Len(rel_log) - Len(expected) + 1,
                                  Len(rel_log)) = expected
       /\ rel_log' = Append(rel_log, <<"ask", "update version", FALSE>>)
          => /\ PrepareEnds
             /\ Effects = {}
             /\ UNCHANGED rel_repo
       /\ (PrepareEnds /\ rel_pc \notin {"prepare_release:250", "prepare_release:254"})
          => \E v \in Versions \cup {new_version} :
                forge_pyproject' = ForgePyproject(v) /\ forge_init' = ForgeInit(v)
      ]_vars

\* prepare-release minor ran to its end on 0.9.9: both files hold 0.10.0 and
\* the bump is committed
C22_Witness ==
    /\ argv = <<"prepare-release", "minor">>
    /\ rel_exit = 0
    /\ commits = <<"bump: version 0.9.9 -> 0.10.0">>
    /\ Agreeing("0.10.0")

\* a confirmation of the run was answered with no
Declined == \E i \in 1..Len(rel_log) : rel_log[i][1] = "ask" /\ rel_log[i][3] = FALSE

\* the run has pushed, or has entered create_release
PushedOrCreating ==
    \/ \E i \in 1..Len(rel_log) :
          /\ rel_log[i][1] = "run"
          /\ \/ StartsAt(rel_log[i][2], 0, "git push")
             \/ StartsAt(rel_log[i][2], 0, "git pull")
             \/ StartsAt(rel_log[i][2], 0, "git tag")
    \/ StartsAt(rel_pc, 0, "create_release")
    \/ rel_stack # <<>> /\ StartsAt(Head(rel_stack), 0, "create_release")

\* C23: a full-release run pushes or enters create_release only after
\* prepare_release wrote both version files and committed the bump; after a
\* declined confirmation it pushes nothing, tags nothing and runs no step
\* of create_release.
C23_ReleaseOnlyAfterBump ==
    (argv # <<>> /\ argv[1] = "full-release" /\ PushedOrCreating)
        => /\ ~Declined
           /\ commits # <<>>
           /\ \E i \in Effects : rel_log[i] = <<"write", PYPROJECT_PATH>>
           /\ \E i \in Effects : rel_log[i] = <<"write", INIT_PATH>>

----------------------------------------------------------------------------
(* Claims about the wiring `generate resource` writes, checked under Spec. *)

\* the (bounded context, entity) pairs of the successful generate runs so far
Generated ==
    {<<history[i][3], history[i][4]>> : i \in {k \in DOMAIN history :
        main_py /\ history[k][1] = "generate"}}

\* the key a generated register function registers, as it stands in the file
QuotedKey(bc, name, role) == "\"" \o bc \o "." \o name \o "." \o role \o "\""

\* di_wiring.py registers the repository and the service of the pair
Registers(bc, name) ==
    /\ str_in("def register_" \o name \o "(container", di_wiring_py)
    /\ str_in("container.register(\n        " \o QuotedKey(bc, name, "repo") \o ",",
              di_wiring_py)
    /\ str_in("container.register(\n        " \o QuotedKey(bc, name, "service") \o ",",
              di_wiring_py)

\* api.py imports the controller of the pair
Imports(bc, name) ==
    str_in("from ." \o bc \o ".controller import bp as " \o name \o "_bp, ", api_py)

\* C24: after any successful `generate resource` runs, for every generated
\* pair di_wiring.py holds a register_<name> function that registers
\* '<bc>.<name>.repo' and '<bc>.<name>.service', and api.py holds the pair's
\* controller import line, also when one entity name was generated in two
\* bounded contexts.
C24_EveryPairWired ==
    \A pair \in Generated :
        /\ Registers(bc_of(pair[1]), name_of(pair[2]))
        /\ Imports(bc_of(pair[1]), name_of(pair[2]))

\* in t the line stands inside the function that starts at head, before the
\* first occurrence of the function's closing statement
PlacedBefore(t, head, line, closing) ==
    LET h == str_find(t, head, 0)
        l == str_find(t, line, 0)
    IN  /\ h >= 0
        /\ l > h
        /\ str_find(t, closing, h) > l

\* C25: when a successful `generate resource` run takes the regex fallback
\* for the register line, the line ends up inside build_api_blueprint before
\* its `return api`; when it takes the regex fallback for the init line, the
\* line ends up inside register_http before `app.register_blueprint(api_bp)`.
C25_FallbackTakesEffect ==
    [][(/\ main_py
        /\ history' # history
        /\ history'[Len(history')][1] = "generate")
          => LET name == name_of(history'[Len(history')][4])
             IN  /\ branches'[2] = "regex"
                      => PlacedBefore(api_py', "def build_api_blueprint(",
                                      register_line(name), "return api")
                 /\ branches'[3] = "regex"
                      => PlacedBefore(api_py', "def register_http(",
                                      init_line(name), "app.register_blueprint(api_bp)")
      ]_vars

====
